---- MODULE Spec2Model ----
(***************************************************************************)
(* Model of the GPX ingestion and route-statistics engine of BibJournal    *)
(* (src/src/lib/gpxParser.js): parseGPX, calculateRouteStats,              *)
(* haversineDistance and calculateBounds.                                  *)
(*                                                                         *)
(* JavaScript numbers are modelled as tagged records: a finite number      *)
(* (an integer in the unit of the field), NaN, +Infinity, -Infinity, and   *)
(* the value null.  Attribute and element texts are sequences of           *)
(* one-character strings, parsed by ParseFloat as parseFloat parses them.  *)
(* Distances are kept in metres, times in seconds, elevations in metres.   *)
(***************************************************************************)
EXTENDS Integers, Sequences, FiniteSets, TLC

(***************************************************************************)
(* JavaScript values                                                       *)
(***************************************************************************)
Null == [k |-> "null", v |-> 0]
NaN == [k |-> "nan", v |-> 0]
PosInf == [k |-> "inf", v |-> 1]
NegInf == [k |-> "inf", v |-> -1]
Num(n) == [k |-> "num", v |-> n]

IsNaN(a) == a.k = "nan"
IsFinite(a) == a.k = "num"

\* a > b in JavaScript: false as soon as one side is NaN
JsGt(a, b) ==
    IF a.k = "nan" \/ b.k = "nan" THEN FALSE
    ELSE IF a.k = "inf" THEN a.v = 1 /\ ~(b.k = "inf" /\ b.v = 1)
    ELSE IF b.k = "inf" THEN b.v = -1
    ELSE a.v > b.v

\* a < b in JavaScript
JsLt(a, b) == JsGt(b, a)

\* a + b in JavaScript
JsAdd(a, b) ==
    IF a.k = "nan" \/ b.k = "nan" THEN NaN
    ELSE IF a.k = "inf" /\ b.k = "inf" THEN (IF a.v = b.v THEN a ELSE NaN)
    ELSE IF a.k = "inf" THEN a
    ELSE IF b.k = "inf" THEN b
    ELSE Num(a.v + b.v)

\* a - b in JavaScript
JsSub(a, b) ==
    IF a.k = "nan" \/ b.k = "nan" THEN NaN
    ELSE IF a.k = "inf" /\ b.k = "inf" THEN (IF a.v = b.v THEN NaN ELSE a)
    ELSE IF a.k = "inf" THEN a
    ELSE IF b.k = "inf" THEN [k |-> "inf", v |-> 0 - b.v]
    ELSE Num(a.v - b.v)

\* Math.min(a, b): NaN as soon as one argument is NaN
MathMin(a, b) ==
    IF a.k = "nan" \/ b.k = "nan" THEN NaN
    ELSE IF JsLt(b, a) THEN b ELSE a

\* Math.max(a, b): NaN as soon as one argument is NaN
MathMax(a, b) ==
    IF a.k = "nan" \/ b.k = "nan" THEN NaN
    ELSE IF JsGt(b, a) THEN b ELSE a

(***************************************************************************)
(* Texts and parseFloat                                                    *)
(***************************************************************************)
\* an attribute or child element that is not there (getAttribute gives null,
\* querySelector(...)?.textContent gives undefined)
NoText == [has |-> FALSE, s |-> <<>>]
Text(s) == [has |-> TRUE, s |-> s]

Digits == {"0", "1", "2", "3", "4", "5", "6", "7", "8", "9"}

DigitVal(c) ==
    CASE c = "0" -> 0 [] c = "1" -> 1 [] c = "2" -> 2 [] c = "3" -> 3
      [] c = "4" -> 4 [] c = "5" -> 5 [] c = "6" -> 6 [] c = "7" -> 7
      [] c = "8" -> 8 [] c = "9" -> 9

InfinityChars == <<"I", "n", "f", "i", "n", "i", "t", "y">>

StartsWith(s, p) == Len(s) >= Len(p) /\ SubSeq(s, 1, Len(p)) = p

\* the position of the first character of s, from position i on, that is not
\* white space
RECURSIVE SkipSpaces(_, _)
SkipSpaces(s, i) ==
    IF i <= Len(s) /\ s[i] = " " THEN SkipSpaces(s, i + 1) ELSE i

\* the length of the run of decimal digits s starts with
RECURSIVE DigitRun(_, _)
DigitRun(s, n) ==
    IF n < Len(s) /\ s[n + 1] \in Digits THEN DigitRun(s, n + 1) ELSE n

\* the value of a sequence of decimal digits
RECURSIVE DigitsValue(_, _, _)
DigitsValue(s, i, acc) ==
    IF i > Len(s) THEN acc ELSE DigitsValue(s, i + 1, acc * 10 + DigitVal(s[i]))

\* parseFloat(t): leading white space is skipped, then an optional sign, then
\* either the literal Infinity or the longest run of digits; whatever follows
\* is ignored; no number at the start gives NaN.  A missing text is the
\* string "null" or "undefined", which gives NaN.  (The texts of the model
\* hold no decimal point and no exponent.)
ParseFloat(t) ==
    IF ~t.has THEN NaN
    ELSE LET s == t.s
             i0 == SkipSpaces(s, 1)
             signed == i0 <= Len(s) /\ s[i0] \in {"-", "+"}
             neg == i0 <= Len(s) /\ s[i0] = "-"
             rest == SubSeq(s, IF signed THEN i0 + 1 ELSE i0, Len(s))
             n == DigitRun(rest, 0)
         IN  IF StartsWith(rest, InfinityChars)
             THEN (IF neg THEN NegInf ELSE PosInf)
             ELSE IF n = 0 THEN NaN
             ELSE Num((IF neg THEN -1 ELSE 1) * DigitsValue(SubSeq(rest, 1, n), 1, 0))

\* a text is truthy in JavaScript when it is there and not empty
Truthy(t) == t.has /\ Len(t.s) > 0

(***************************************************************************)
(* Time texts and Date                                                     *)
(***************************************************************************)
\* The text of a <time> child: absent, empty, a text that is no date, or an
\* ISO-8601 instant, kept as its number of seconds since the epoch.
NoTime == [kind |-> "absent", at |-> 0]
EmptyTime == [kind |-> "empty", at |-> 0]
BadTime == [kind |-> "garbage", at |-> 0]
Iso(t) == [kind |-> "iso", at |-> t]
\* the value null of the field time
NullTime == [kind |-> "null", at |-> 0]

TimeTruthy(t) == t.kind \in {"garbage", "iso"}

\* new Date(text).getTime(): milliseconds since the epoch, NaN for a text
\* that is no date
DateGetTime(t) == IF t.kind = "iso" THEN Num(t.at * 1000) ELSE NaN

(***************************************************************************)
(* haversineDistance, in fixed point                                       *)
(***************************************************************************)
\* Earth's radius in kilometres
R == 6371

\* the largest x with x * x <= n (Math.sqrt on the fixed-point grid)
RECURSIVE SqrtIter(_, _)
SqrtIter(n, x) ==
    LET y == (x + n \div x) \div 2
    IN  IF y >= x THEN x ELSE SqrtIter(n, y)

Sqrt(n) == IF n <= 0 THEN 0 ELSE SqrtIter(n, n)

\* Math.sin(d * PI / 180 / 2) in millionths, d a difference of whole degrees
SinHalfDeg(d) ==
    CASE d = 0 -> 0
      [] d = 1 -> 8727
      [] d = -1 -> -8727

\* Math.cos(lat * PI / 180) in ten-thousandths, lat in whole degrees
CosDeg(lat) ==
    CASE lat = 0 -> 10000
      [] lat = 1 -> 9998
      [] lat = -1 -> 9998

\* Math.atan2(y, x) in millionths of a radian, for y in millionths and x in
\* ten-thousandths, x > 0: atan t = t - t^3 / 3 for the small t = y / x
Atan2(y, x) ==
    LET t == (y * 10000) \div x
    IN  t - (((t * t) \div 1000000) * t) \div 3000000

\* variant: c is the arc tangent itself, not twice it
haversineDistanceHalf(lat1, lon1, lat2, lon2) ==
    IF ~(IsFinite(lat1) /\ IsFinite(lon1) /\ IsFinite(lat2) /\ IsFinite(lon2))
    THEN NaN
    ELSE LET sLat == SinHalfDeg(lat2.v - lat1.v)
             sLon == SinHalfDeg(lon2.v - lon1.v)
             a == (sLat * sLat) \div 1000
                  + (((CosDeg(lat1.v) * CosDeg(lat2.v)) \div 10000)
                       * ((sLon * sLon) \div 1000)) \div 10000
             c == Atan2(Sqrt(a * 1000), Sqrt((1000000000 - a) \div 10))
         IN  Num((R * c) \div 1000)

\* haversineDistance(lat1, lon1, lat2, lon2) in metres.  sin and cos of a
\* non-finite angle are NaN, and NaN goes through to the result.
haversineDistance(lat1, lon1, lat2, lon2) ==
    IF ~(IsFinite(lat1) /\ IsFinite(lon1) /\ IsFinite(lat2) /\ IsFinite(lon2))
    THEN NaN
    ELSE LET sLat == SinHalfDeg(lat2.v - lat1.v)
             sLon == SinHalfDeg(lon2.v - lon1.v)
             \* a in 1e-9
             a == (sLat * sLat) \div 1000
                  + (((CosDeg(lat1.v) * CosDeg(lat2.v)) \div 10000)
                       * ((sLon * sLon) \div 1000)) \div 10000
             \* c in millionths of a radian
             c == 2 * Atan2(Sqrt(a * 1000), Sqrt((1000000000 - a) \div 10))
         IN  Num((R * c) \div 1000)

(***************************************************************************)
(* calculateRouteStats                                                     *)
(***************************************************************************)
Min2(a, b) == IF a < b THEN a ELSE b

\* line 80: the number of leading samples inspected for a time
TimeProbe == 10

\* variant: every sample is inspected for a time, not only the first 10
RECURSIVE TimeDataCountAll(_, _)
TimeDataCountAll(coordinates, i) ==
    IF i > Len(coordinates) THEN 0
    ELSE (IF TimeTruthy(coordinates[i].time) THEN 1 ELSE 0)
         + TimeDataCountAll(coordinates, i + 1)

\* lines 79-85: the count of samples with a time among the first 10
RECURSIVE TimeDataCount(_, _)
TimeDataCount(coordinates, i) ==
    IF i > Min2(Len(coordinates), TimeProbe) THEN 0
    ELSE (IF TimeTruthy(coordinates[i].time) THEN 1 ELSE 0)
         + TimeDataCount(coordinates, i + 1)

HasTimeData(coordinates) == TimeDataCount(coordinates, 1) > 0

\* variant: a difference of exactly one hour is counted
ReasonableDiffInclusive(timeDiff) == timeDiff > 0 /\ timeDiff <= 3600

\* line 111: only count reasonable time differences (seconds)
ReasonableDiff(timeDiff) == timeDiff > 0 /\ timeDiff < 3600

\* lines 102-119: the seconds the pair (prev, curr) adds to totalTimeSeconds
TimeStep(hasTimeData, prev, curr) ==
    IF hasTimeData /\ TimeTruthy(prev.time) /\ TimeTruthy(curr.time)
    THEN LET prevTime == DateGetTime(prev.time)
             currTime == DateGetTime(curr.time)
         IN  IF ~IsNaN(prevTime) /\ ~IsNaN(currTime)
             THEN LET timeDiff == (currTime.v - prevTime.v) \div 1000
                  IN  IF ReasonableDiff(timeDiff) THEN timeDiff ELSE 0
             ELSE 0
    ELSE 0

\* line 122: both samples of the pair have an elevation that is not null
BothElevations(prev, curr) == prev.elevation # Null /\ curr.elevation # Null

\* variant: descents are added too, with their sign
GainStepSigned(prev, curr) ==
    IF BothElevations(prev, curr)
    THEN JsSub(curr.elevation, prev.elevation)
    ELSE Num(0)

\* lines 123-125: what the pair adds to totalElevationGain
GainStep(prev, curr) ==
    IF BothElevations(prev, curr) /\ JsGt(curr.elevation, prev.elevation)
    THEN JsSub(curr.elevation, prev.elevation)
    ELSE Num(0)

\* line 126
MinStep(minElevation, prev, curr) ==
    IF BothElevations(prev, curr)
    THEN MathMin(MathMin(minElevation, curr.elevation), prev.elevation)
    ELSE minElevation

\* variant: the maximum is taken over prev alone
MaxStepPrevOnly(maxElevation, prev, curr) ==
    IF BothElevations(prev, curr)
    THEN MathMax(maxElevation, prev.elevation)
    ELSE maxElevation

\* line 127
MaxStep(maxElevation, prev, curr) ==
    IF BothElevations(prev, curr)
    THEN MathMax(MathMax(maxElevation, curr.elevation), prev.elevation)
    ELSE maxElevation

\* lines 71-76: the accumulators before the loop
LoopInit ==
    [totalDistance |-> Num(0), totalElevationGain |-> Num(0),
     minElevation |-> PosInf, maxElevation |-> NegInf, totalTimeSeconds |-> 0]

\* lines 93-129: the loop over the consecutive pairs, from index i (1-based:
\* the pair is coordinates[i - 1], coordinates[i]) to the end
RECURSIVE Loop(_, _, _, _)
Loop(coordinates, hasTimeData, i, acc) ==
    IF i > Len(coordinates) THEN acc
    ELSE LET prev == coordinates[i - 1]
             curr == coordinates[i]
             distance == haversineDistance(prev.lat, prev.lon, curr.lat, curr.lon)
         IN  Loop(coordinates, hasTimeData, i + 1,
                  [totalDistance |-> JsAdd(acc.totalDistance, distance),
                   totalElevationGain |->
                       JsAdd(acc.totalElevationGain, GainStep(prev, curr)),
                   minElevation |-> MinStep(acc.minElevation, prev, curr),
                   maxElevation |-> MaxStep(acc.maxElevation, prev, curr),
                   totalTimeSeconds |->
                       acc.totalTimeSeconds + TimeStep(hasTimeData, prev, curr)])

\* variant: the gate without the condition on the time
PaceGateNoTime(hasTimeData, totalTimeSeconds, totalDistance) ==
    hasTimeData /\ JsGt(totalDistance, Num(0))

\* line 134: the three-way gate of the pace fields
PaceGate(hasTimeData, totalTimeSeconds, totalDistance) ==
    hasTimeData /\ totalTimeSeconds > 0 /\ JsGt(totalDistance, Num(0))

\* lines 136-137: minutes per kilometre, in thousandths
PacePerKm(totalTimeSeconds, totalDistance) ==
    Num((totalTimeSeconds * 50000) \div (totalDistance.v * 3))

\* line 140: totalDistance * 0.621371, in thousandths of a mile
DistanceMiles(totalDistance) ==
    ((totalDistance.v \div 1000) * 621371) \div 1000
    + ((totalDistance.v % 1000) * 621371) \div 1000000

\* lines 141-142: minutes per mile, in thousandths
PacePerMile(totalTimeSeconds, totalDistance) ==
    Num((totalTimeSeconds * 50000) \div (DistanceMiles(totalDistance) * 3))

\* variant: the time is returned as soon as there is time data, 0 included
TotalTimeZero(hasTimeData, totalTimeSeconds) ==
    IF hasTimeData THEN Num(totalTimeSeconds) ELSE Null

\* line 151
TotalTime(hasTimeData, totalTimeSeconds) ==
    IF hasTimeData /\ totalTimeSeconds > 0 THEN Num(totalTimeSeconds) ELSE Null

calculateRouteStats(coordinates) ==
    LET hasTimeData == HasTimeData(coordinates)
        acc == Loop(coordinates, hasTimeData, 2, LoopInit)
        gate == PaceGate(hasTimeData, acc.totalTimeSeconds, acc.totalDistance)
    IN  [distance |-> acc.totalDistance,
         elevationGain |-> acc.totalElevationGain,
         minElevation |-> IF acc.minElevation = PosInf THEN Null ELSE acc.minElevation,
         maxElevation |-> IF acc.maxElevation = NegInf THEN Null ELSE acc.maxElevation,
         pointsCount |-> Len(coordinates),
         totalTime |-> TotalTime(hasTimeData, acc.totalTimeSeconds),
         averagePace |->
             IF gate THEN PacePerKm(acc.totalTimeSeconds, acc.totalDistance) ELSE Null,
         averagePacePerMile |->
             IF gate THEN PacePerMile(acc.totalTimeSeconds, acc.totalDistance) ELSE Null,
         hasTimeData |-> hasTimeData]

(***************************************************************************)
(* calculateBounds                                                         *)
(***************************************************************************)
\* variant: the last argument is left out
RECURSIVE MinOfButLast(_, _)
MinOfButLast(xs, i) ==
    IF i >= Len(xs) THEN PosInf ELSE MathMin(xs[i], MinOfButLast(xs, i + 1))

\* Math.min(...xs): Infinity for no argument
RECURSIVE MinOf(_, _)
MinOf(xs, i) == IF i > Len(xs) THEN PosInf ELSE MathMin(xs[i], MinOf(xs, i + 1))

\* Math.max(...xs): -Infinity for no argument
RECURSIVE MaxOf(_, _)
MaxOf(xs, i) == IF i > Len(xs) THEN NegInf ELSE MathMax(xs[i], MaxOf(xs, i + 1))

calculateBounds(coordinates) ==
    LET lats == [i \in 1..Len(coordinates) |-> coordinates[i].lat]
        lons == [i \in 1..Len(coordinates) |-> coordinates[i].lon]
    IN  [minLat |-> MinOf(lats, 1), maxLat |-> MaxOf(lats, 1),
         minLon |-> MinOf(lons, 1), maxLon |-> MaxOf(lons, 1)]

(***************************************************************************)
(* parseGPX                                                                *)
(***************************************************************************)
\* A file's text as DOMParser sees it: well formed or not, and the trkpt
\* elements in document order, each with its lat and lon attributes and the
\* texts of its ele and time children.

\* variant: the point is kept when one of lat and lon is a number
KeepPointEither(lat, lon) == ~IsNaN(lat) \/ ~IsNaN(lon)

\* line 32: the point is kept when neither lat nor lon is NaN
KeepPoint(lat, lon) == ~IsNaN(lat) /\ ~IsNaN(lon)

\* line 36
Elevation(ele) == IF Truthy(ele) THEN ParseFloat(ele) ELSE Null

\* line 37
Time(time) == IF TimeTruthy(time) THEN time ELSE NullTime

\* lines 33-38: the sample pushed for a trkpt element
Sample(trkpt) ==
    [lat |-> ParseFloat(trkpt.lat), lon |-> ParseFloat(trkpt.lon),
     elevation |-> Elevation(trkpt.ele), time |-> Time(trkpt.time)]

\* variant: coordinates.unshift(sample)
Unshift(coordinates, sample) == <<sample>> \o coordinates

\* line 33: coordinates.push(sample)
Push(coordinates, sample) == Append(coordinates, sample)

\* lines 26-40: trkpts.forEach, from element i on
RECURSIVE ForEach(_, _, _)
ForEach(trkpts, i, coordinates) ==
    IF i > Len(trkpts) THEN coordinates
    ELSE LET s == Sample(trkpts[i])
         IN  ForEach(trkpts, i + 1,
                     IF KeepPoint(s.lat, s.lon) THEN Push(coordinates, s)
                     ELSE coordinates)

ExtractCoordinates(trkpts) == ForEach(trkpts, 1, <<>>)

InvalidFormat == "Invalid GPX file format"
NoTrackPoints == "No track points found in GPX file"
ReadFailed == "Failed to read GPX file"

\* variant: the error element is never found
ParseErrorMissed(doc) == FALSE

\* line 17: xmlDoc.querySelector('parsererror') finds the error element that
\* DOMParser puts in the document of a text that is not well formed
ParseError(doc) == ~doc.wellFormed

NoStats ==
    [distance |-> Null, elevationGain |-> Null, minElevation |-> Null,
     maxElevation |-> Null, pointsCount |-> 0, totalTime |-> Null,
     averagePace |-> Null, averagePacePerMile |-> Null, hasTimeData |-> FALSE]
NoBounds == [minLat |-> Null, maxLat |-> Null, minLon |-> Null, maxLon |-> Null]
NoRouteData == [coordinates |-> <<>>, stats |-> NoStats, bounds |-> NoBounds]
NoFile == [wellFormed |-> TRUE, trkpts |-> <<>>]

Pending == [state |-> "pending", reason |-> ""]
Fulfilled == [state |-> "fulfilled", reason |-> ""]
Rejected(reason) == [state |-> "rejected", reason |-> reason]

(***************************************************************************)
(* Inputs                                                                  *)
(***************************************************************************)
\* the longest track of the families that vary every field of a point
MaxPts == 3
\* the longest track of the families that vary one thing per point
MaxLong == 12

TNone == NoText
TEmpty == Text(<<>>)
TAbc == Text(<<"a", "b", "c">>)
TInf == Text(InfinityChars)
T0 == Text(<<"0">>)
T1 == Text(<<"1">>)
T1x == Text(<<"1", "x">>)
T80 == Text(<<"8", "0">>)
T100 == Text(<<"1", "0", "0">>)
T120 == Text(<<"1", "2", "0">>)

Trkpt(lat, lon, ele, time) == [lat |-> lat, lon |-> lon, ele |-> ele, time |-> time]

SeqsUpTo(S, n) == UNION {[1..m -> S] : m \in 0..n}

\* points whose lat and lon attributes vary: missing, not a number, Infinity,
\* a number, a number followed by other characters
AttrPoints ==
    {Trkpt(lat, T0, TNone, NoTime) : lat \in {TNone, TAbc, TInf, T0, T1x}}
    \cup {Trkpt(T0, lon, TNone, NoTime) : lon \in {TNone, TAbc, TInf, T1}}

\* points whose elevation child varies
ElePoints ==
    {Trkpt(T0, T0, ele, NoTime) :
        ele \in {TNone, TEmpty, TAbc, TInf, T80, T100, T120}}
    \cup {Trkpt(T1, T0, ele, NoTime) : ele \in {TNone, T100}}

\* points whose time child varies
TimePoints ==
    {Trkpt(T0, T0, TNone, time) :
        time \in {NoTime, BadTime, Iso(0), Iso(1800), Iso(3600), Iso(7200)}}
    \cup {Trkpt(T1, T0, TNone, time) : time \in {NoTime, Iso(1800), Iso(3600)}}
    \cup {Trkpt(TInf, T0, TNone, time) : time \in {Iso(0), Iso(1800)}}

\* points with an elevation and a time
MixedPoints ==
    {Trkpt(lat, T0, ele, time) :
        lat \in {T0, T1}, ele \in {TNone, T100}, time \in {EmptyTime, Iso(0)}}

\* the positions of a long track that are varied: the first two, those around
\* the last position inspected for a time, and the rest of the track
Varied(n) == {1, 2} \cup ((TimeProbe - 1)..n)

\* long tracks that zigzag between two places, the points at the positions
\* of P carrying a time, 600 seconds apart
TimedTrack(n, P) ==
    [i \in 1..n |->
        Trkpt(IF i % 2 = 0 THEN T1 ELSE T0, T0, TNone,
              IF i \in P THEN Iso(600 * i) ELSE NoTime)]

\* long tracks whose points outside the positions of V have a lat that is no
\* number
MalformedTrack(n, V) ==
    [i \in 1..n |->
        Trkpt(IF i \notin V THEN TAbc ELSE IF i % 2 = 0 THEN T1 ELSE T0,
              T0, TNone, NoTime)]

\* the file of a call of parseGPX
FileInit(f) ==
    \/ \E m \in 0..MaxPts, w \in BOOLEAN :
         \E t \in [1..m -> AttrPoints] : f = [wellFormed |-> w, trkpts |-> t]
    \/ \E m \in 1..MaxPts :
         \E t \in [1..m -> ElePoints] : f = [wellFormed |-> TRUE, trkpts |-> t]
    \/ \E m \in 1..MaxPts :
         \E t \in [1..m -> TimePoints] : f = [wellFormed |-> TRUE, trkpts |-> t]
    \/ \E m \in 1..MaxPts :
         \E t \in [1..m -> MixedPoints] : f = [wellFormed |-> TRUE, trkpts |-> t]
    \/ \E n \in (TimeProbe - 1)..MaxLong :
         \E P \in SUBSET Varied(n) :
            f = [wellFormed |-> TRUE, trkpts |-> TimedTrack(n, P)]
    \/ \E n \in (MaxLong - 1)..MaxLong :
         \E V \in SUBSET (1..n) :
            /\ Cardinality(V) <= 2
            /\ f = [wellFormed |-> TRUE, trkpts |-> MalformedTrack(n, V)]

\* coordinate sequences handed to calculateRouteStats by a caller that holds
\* stored route data
StoredSamples ==
    {[lat |-> Num(0), lon |-> Num(0), elevation |-> ele, time |-> time] :
        ele \in {Null, Num(100)}, time \in {NullTime, Iso(0), Iso(1800)}}
    \cup {[lat |-> Num(1), lon |-> Num(0), elevation |-> Null, time |-> time] :
        time \in {NullTime, Iso(0), Iso(1800)}}

(***************************************************************************)
(* calculateStats (src/unnamed/part_007)                                   *)
(*                                                                         *)
(* An entry holds its route statistics (or none), its categorical labels   *)
(* raceDistance and raceType ("" when absent) and the text of              *)
(* results.finishTime.  A route distance is kept in metres (thousandths of *)
(* the kilometres of the code), a pace in hundredths of a second per       *)
(* kilometre.                                                              *)
(***************************************************************************)
\* x is truthy, for a number or null
JsTruthy(x) == (x.k = "num" /\ x.v # 0) \/ x.k = "inf"

\* x && x > 0
Positive(x) == JsTruthy(x) /\ JsGt(x, Num(0))

\* lines 42-52: getDistanceInKm, in metres
getDistanceInKm(raceDistance) ==
    CASE raceDistance = "5K" -> 5000
      [] raceDistance = "10K" -> 10000
      [] raceDistance = "Half Marathon" -> 21097
      [] raceDistance = "Marathon" -> 42195
      [] raceDistance = "Ultra" -> 50000
      [] raceDistance = "Triathlon" -> 51500
      [] OTHER -> 0

\* line 62: String.prototype.trim
RECURSIVE Trim(_)
Trim(s) ==
    IF Len(s) > 0 /\ s[1] = " " THEN Trim(Tail(s))
    ELSE IF Len(s) > 0 /\ s[Len(s)] = " " THEN Trim(SubSeq(s, 1, Len(s) - 1))
    ELSE s

\* line 65: split(':'), from position i on, cur the part being read
RECURSIVE Split(_, _, _)
Split(s, i, cur) ==
    IF i > Len(s) THEN <<cur>>
    ELSE IF s[i] = ":" THEN <<cur>> \o Split(s, i + 1, <<>>)
    ELSE Split(s, i + 1, Append(cur, s[i]))

\* line 66: Number(text): 0 for the empty text, the value of a run of digits,
\* NaN for any other text of the model
NumberOf(s) ==
    IF Len(s) = 0 THEN Num(0)
    ELSE IF DigitRun(s, 0) = Len(s) THEN Num(DigitsValue(s, 1, 0))
    ELSE NaN

\* lines 65-68: a part that is no number counts as 0
Part(s) == LET num == NumberOf(Trim(s)) IN IF IsNaN(num) THEN 0 ELSE num.v

\* variant: a part that is no number makes the whole text unparsable
parseTimeToSecondsStrict(timeString) ==
    IF ~Truthy(timeString) THEN Null
    ELSE LET raw == Split(Trim(timeString.s), 1, <<>>)
             parts == [i \in 1..Len(raw) |-> Part(raw[i])]
         IN  IF \E i \in 1..Len(raw) : IsNaN(NumberOf(Trim(raw[i]))) THEN Null
             ELSE IF Len(parts) = 3 THEN Num(parts[1] * 3600 + parts[2] * 60 + parts[3])
             ELSE IF Len(parts) = 2 THEN Num(parts[1] * 60 + parts[2])
             ELSE IF Len(parts) = 1 /\ parts[1] > 0 THEN Num(parts[1])
             ELSE Null

\* lines 58-82
parseTimeToSeconds(timeString) ==
    IF ~Truthy(timeString) THEN Null
    ELSE LET raw == Split(Trim(timeString.s), 1, <<>>)
             parts == [i \in 1..Len(raw) |-> Part(raw[i])]
         IN  IF Len(parts) = 3 THEN Num(parts[1] * 3600 + parts[2] * 60 + parts[3])
             ELSE IF Len(parts) = 2 THEN Num(parts[1] * 60 + parts[2])
             ELSE IF Len(parts) = 1 /\ parts[1] > 0 THEN Num(parts[1])
             ELSE Null

DigitChar(d) ==
    CASE d = 0 -> "0" [] d = 1 -> "1" [] d = 2 -> "2" [] d = 3 -> "3"
      [] d = 4 -> "4" [] d = 5 -> "5" [] d = 6 -> "6" [] d = 7 -> "7"
      [] d = 8 -> "8" [] d = 9 -> "9"

\* Number.prototype.toString of a natural number
RECURSIVE ToDigits(_)
ToDigits(n) ==
    IF n < 10 THEN <<DigitChar(n)>>
    ELSE Append(ToDigits(n \div 10), DigitChar(n % 10))

\* line 93: padStart(2, '0')
PadStart2(s) == IF Len(s) < 2 THEN <<"0">> \o s ELSE s

\* lines 87-94: formatPace, of a pace in hundredths of a second per kilometre;
\* null is the absent text
formatPace(secondsPerKm) ==
    IF secondsPerKm = 0 THEN NoText
    ELSE LET minutes == secondsPerKm \div 6000
             seconds == (secondsPerKm % 6000) \div 100
         IN  Text(ToDigits(minutes) \o <<":">> \o PadStart2(ToDigits(seconds))
                  \o <<"/", "k", "m">>)

\* the route statistics of an entry: none, or distance and totalTime
NoRoute == [present |-> FALSE, distance |-> Null, totalTime |-> Null]
Route(distance, totalTime) ==
    [present |-> TRUE, distance |-> distance, totalTime |-> totalTime]

Entry(route, raceDistance, raceType, finishTime) ==
    [routeData |-> route, raceDistance |-> raceDistance, raceType |-> raceType,
     finishTime |-> finishTime]

\* lines 122, 184: entry.routeData && entry.routeData.stats
HasStats(entry) == entry.routeData.present

\* lines 145, 174
DistanceLabels ==
    {"5K", "10K", "Half Marathon", "Marathon", "Ultra", "Triathlon", "Other"}

\* lines 171-177 (and 140-148): the categorical distance of the entry, "" for
\* none
CategoricalDistance(entry) ==
    IF entry.raceDistance # "" THEN entry.raceDistance
    ELSE IF entry.raceType # "" /\ entry.raceType \in DistanceLabels
    THEN entry.raceType
    ELSE ""

\* lines 117-153: the local actualDistanceKm, in metres, 0 when it is falsy
ActualDistanceKm(entry) ==
    IF HasStats(entry) /\ Positive(entry.routeData.distance)
    THEN entry.routeData.distance.v
    ELSE IF CategoricalDistance(entry) # ""
    THEN getDistanceInKm(CategoricalDistance(entry))
    ELSE 0

\* lines 118-159: the local actualTimeSeconds
ActualTimeSeconds(entry) ==
    IF HasStats(entry) /\ Positive(entry.routeData.totalTime)
    THEN entry.routeData.totalTime
    ELSE IF Truthy(entry.finishTime) THEN parseTimeToSeconds(entry.finishTime)
    ELSE Null

\* time / distance, in hundredths of a second per kilometre
PaceOf(time, distance) == (time.v * 100000) \div distance.v

\* variant: the total takes the nominal distance of the label when there is
\* no route distance
DistanceStepNominal(entry) == ActualDistanceKm(entry)

\* lines 164-167: what the entry adds to stats.totalDistance
DistanceStep(entry) ==
    IF HasStats(entry) /\ Positive(entry.routeData.distance)
    THEN entry.routeData.distance.v
    ELSE 0

\* variant: the pace is taken from the locals actualTimeSeconds and
\* actualDistanceKm
PaceStepLocals(entry) ==
    IF Positive(ActualTimeSeconds(entry)) /\ ActualDistanceKm(entry) > 0
    THEN <<PaceOf(ActualTimeSeconds(entry), Num(ActualDistanceKm(entry)))>>
    ELSE <<>>

\* variant: the finish time is tried first
PaceStepFinishFirst(entry) ==
    IF HasStats(entry) /\ Positive(entry.routeData.distance)
       /\ Positive(parseTimeToSeconds(entry.finishTime))
    THEN <<PaceOf(parseTimeToSeconds(entry.finishTime), entry.routeData.distance)>>
    ELSE IF HasStats(entry) /\ Positive(entry.routeData.distance)
            /\ Positive(entry.routeData.totalTime)
    THEN <<PaceOf(entry.routeData.totalTime, entry.routeData.distance)>>
    ELSE <<>>

\* lines 184-231: the pace samples the entry pushes to paceData.  The branch
\* of line 208 asks for entry.routeData.stats after the test of line 184 has
\* found none.
PaceStep(entry) ==
    IF HasStats(entry)
    THEN IF Positive(entry.routeData.distance) /\ Positive(entry.routeData.totalTime)
         THEN <<PaceOf(entry.routeData.totalTime, entry.routeData.distance)>>
         ELSE <<>>
    ELSE IF Truthy(entry.finishTime) /\ HasStats(entry)
            /\ Positive(entry.routeData.distance)
    THEN LET finishTimeSeconds == parseTimeToSeconds(entry.finishTime)
         IN  IF Positive(finishTimeSeconds)
             THEN <<PaceOf(finishTimeSeconds, entry.routeData.distance)>>
             ELSE <<>>
    ELSE <<>>

\* lines 178-180: distanceCounts, an object whose keys are kept in the order
\* they were first set (no label of the program is an integer index)
CountStep(distanceCounts, label) ==
    IF label = "" THEN distanceCounts
    ELSE IF \E i \in 1..Len(distanceCounts) : distanceCounts[i][1] = label
    THEN [i \in 1..Len(distanceCounts) |->
             IF distanceCounts[i][1] = label
             THEN <<label, distanceCounts[i][2] + 1>>
             ELSE distanceCounts[i]]
    ELSE Append(distanceCounts, <<label, 1>>)

\* lines 115-232: entries.forEach, from entry i on
RECURSIVE ForEachEntry(_, _, _)
ForEachEntry(entries, i, acc) ==
    IF i > Len(entries) THEN acc
    ELSE ForEachEntry(entries, i + 1,
             [totalDistance |-> acc.totalDistance + DistanceStep(entries[i]),
              paceData |-> acc.paceData \o PaceStep(entries[i]),
              distanceCounts |->
                  CountStep(acc.distanceCounts, CategoricalDistance(entries[i]))])

\* line 237: paceData.reduce((sum, pace) => sum + pace, 0)
RECURSIVE Reduce(_, _)
Reduce(paceData, i) ==
    IF i > Len(paceData) THEN 0 ELSE paceData[i] + Reduce(paceData, i + 1)

\* variant: the pace of the first sample alone
AveragePaceFirst(paceData) ==
    IF Len(paceData) > 0 THEN formatPace(paceData[1]) ELSE NoText

\* lines 236-240
AveragePace(paceData) ==
    IF Len(paceData) > 0
    THEN formatPace(Reduce(paceData, 1) \div Len(paceData))
    ELSE NoText

\* variant: a label with the same count as the one before it goes first
RECURSIVE InsertAfterGreater(_, _)
InsertAfterGreater(sorted, x) ==
    IF sorted = <<>> THEN <<x>>
    ELSE IF sorted[1][2] > x[2] THEN <<sorted[1]>> \o InsertAfterGreater(Tail(sorted), x)
    ELSE <<x>> \o sorted

\* line 248: the place of x in a sequence sorted by (a, b) => b[1] - a[1]:
\* after every element whose count is not smaller (the sort is stable)
RECURSIVE Insert(_, _)
Insert(sorted, x) ==
    IF sorted = <<>> THEN <<x>>
    ELSE IF sorted[1][2] >= x[2] THEN <<sorted[1]>> \o Insert(Tail(sorted), x)
    ELSE <<x>> \o sorted

\* line 248: distanceEntries.sort((a, b) => b[1] - a[1])
RECURSIVE Sort(_, _, _)
Sort(distanceEntries, i, sorted) ==
    IF i > Len(distanceEntries) THEN sorted
    ELSE Sort(distanceEntries, i + 1, Insert(sorted, distanceEntries[i]))

\* lines 246-250: "" is null
FavoriteDistance(distanceCounts) ==
    IF Len(distanceCounts) > 0 THEN Sort(distanceCounts, 1, <<>>)[1][1] ELSE ""

NoSummary ==
    [totalRaces |-> 0, totalDistance |-> 0, averagePace |-> NoText,
     favoriteDistance |-> ""]

\* lines 112-113
ForEachInit == [totalDistance |-> 0, paceData |-> <<>>, distanceCounts |-> <<>>]

\* variant: totalRaces counts the entries with route statistics
calculateStatsRouted(entries) ==
    IF Len(entries) = 0 THEN NoSummary
    ELSE LET acc == ForEachEntry(entries, 1, ForEachInit)
         IN  [totalRaces |-> Cardinality({i \in 1..Len(entries) : HasStats(entries[i])}),
              totalDistance |-> acc.totalDistance,
              averagePace |-> AveragePace(acc.paceData),
              favoriteDistance |-> FavoriteDistance(acc.distanceCounts)]

\* lines 99-253
calculateStats(entries) ==
    IF Len(entries) = 0 THEN NoSummary
    ELSE LET acc == ForEachEntry(entries, 1, ForEachInit)
         IN  [totalRaces |-> Len(entries),
              totalDistance |-> acc.totalDistance,
              averagePace |-> AveragePace(acc.paceData),
              favoriteDistance |-> FavoriteDistance(acc.distanceCounts)]

\* the most entries of a collection
MaxEntries == 3

T2500 == Text(<<"2", "5", ":", "0", "0">>)
T3000 == Text(<<"3", "0", ":", "0", "0">>)
T33000 == Text(<<"3", ":", "3", "0", ":", "0", "0">>)
TXY == Text(<<"x", ":", "y">>)

\* entries whose route statistics and finish time vary
PaceEntries ==
    {Entry(NoRoute, "", "", TNone),
     Entry(NoRoute, "Marathon", "", TNone),
     Entry(NoRoute, "Marathon", "", T33000),
     Entry(NoRoute, "", "Marathon", T33000),
     Entry(Route(Num(5000), Null), "", "", TNone),
     Entry(Route(Num(5000), Null), "", "", T2500),
     Entry(Route(Num(5000), Null), "5K", "", TXY),
     Entry(Route(Num(5000), Num(1500)), "", "", TNone),
     Entry(Route(Num(5000), Num(1500)), "5K", "", T3000),
     Entry(Route(Num(10000), Num(3600)), "", "", TNone),
     Entry(Route(Num(0), Num(1500)), "Marathon", "", T2500),
     Entry(Route(Null, Null), "10K", "", T2500)}

\* entries whose labels vary
LabelEntries ==
    {Entry(NoRoute, d, "", TNone) : d \in {"5K", "10K", "Marathon"}}
    \cup {Entry(NoRoute, "", t, TNone) : t \in {"", "Marathon", "Trail Race"}}
    \cup {Entry(Route(Num(5000), Num(1500)), d, "Trail Race", TNone) : d \in {"", "5K"}}

\* the longest finish-time text that is enumerated
MaxText == 5

\* the characters of the enumerated finish-time texts
TimeChars == {"0", "1", "7", ":", "x", " "}

\* the finish-time texts: none, every text of TimeChars up to MaxText
\* characters, and the texts of the entries
TimeTexts ==
    {NoText, T2500, T3000, T33000, TXY}
    \cup {Text(t) : t \in UNION {[1..n -> TimeChars] : n \in 0..MaxText}}

(***************************************************************************)
(* useRaceEntries over IndexedDB (src/src/hooks/useRaceEntries.js)         *)
(*                                                                         *)
(* An entry of the form has a name, a gpxFile (null, a File picked by the  *)
(* user, or the name kept from an earlier save) and, possibly, route data; *)
(* the entries of the model carry no photos.  An absent routeData is       *)
(* NoRouteData, which no parse resolves with.                              *)
(***************************************************************************)
NoGpx == [kind |-> "null", name |-> ""]
GpxFile(name) == [kind |-> "File", name |-> name]
GpxName(name) == [kind |-> "name", name |-> name]

EntryData(raceName, gpxFile, route) ==
    [raceName |-> raceName, gpxFile |-> gpxFile, routeData |-> route]

NoEntry == EntryData("", NoGpx, NoRouteData)

\* route data saved with an entry earlier on
OldSample == [lat |-> Num(1), lon |-> Num(1), elevation |-> Null, time |-> NullTime]
OldRoute ==
    [coordinates |-> <<OldSample>>,
     stats |-> calculateRouteStats(<<OldSample>>),
     bounds |-> calculateBounds(<<OldSample>>)]

\* line 214: entryData.gpxFile && entryData.gpxFile instanceof File
IsNewFile(entryData) == entryData.gpxFile.kind = "File"

\* variant: the rejection of parseGPX is not caught
GpxStepUncaught(processed, entryData, settled, parsed) ==
    IF settled.state = "fulfilled"
    THEN [processed |-> [processed EXCEPT !.routeData = parsed,
                                          !.gpxFile = GpxName(entryData.gpxFile.name)],
          thrown |-> ""]
    ELSE [processed |-> processed, thrown |-> settled.reason]

\* variant: a rejection drops the route data the entry came with
GpxStepClearing(processed, entryData, settled, parsed) ==
    IF settled.state = "fulfilled"
    THEN [processed |-> [processed EXCEPT !.routeData = parsed,
                                          !.gpxFile = GpxName(entryData.gpxFile.name)],
          thrown |-> ""]
    ELSE [processed |-> [processed EXCEPT !.routeData = NoRouteData], thrown |-> ""]

\* lines 215-222: what follows the await of parseGPX, with what leaves the
\* try block as an exception ("" for none)
GpxStep(processed, entryData, settled, parsed) ==
    IF settled.state = "fulfilled"
    THEN [processed |-> [processed EXCEPT !.routeData = parsed,
                                          !.gpxFile = GpxName(entryData.gpxFile.name)],
          thrown |-> ""]
    ELSE [processed |-> processed, thrown |-> ""]

\* lines 223-226: no new file
KeepRoute(processed, entryData) ==
    IF entryData.routeData # NoRouteData
    THEN [processed EXCEPT !.routeData = entryData.routeData]
    ELSE processed

\* lines 32-36: db.raceEntries.add, the key being the next number
Add(table, processed) ==
    table \cup {[id |-> Cardinality(table) + 1, data |-> processed]}

\* lines 48-51: db.raceEntries.update sets the keys it is given; an entry
\* that came without route data has no such key
Update(table, id, processed) ==
    {IF row.id # id THEN row
     ELSE [id |-> id,
           data |-> IF processed.routeData = NoRouteData
                    THEN [processed EXCEPT !.routeData = row.data.routeData]
                    ELSE processed] : row \in table}

StoreFailed == "store failed"

\* the files picked in the form
FormFile(f) ==
    \E m \in 0..2, w \in BOOLEAN :
        \E t \in [1..m -> AttrPoints] : f = [wellFormed |-> w, trkpts |-> t]

\* the entries handed to addEntry and updateEntry
FormEntries ==
    {EntryData("Race", g, r) :
        g \in {NoGpx, GpxFile("run.gpx"), GpxName("old.gpx")},
        r \in {NoRouteData, OldRoute}}

\* the tables an update finds: one stored entry, with or without a route
StoredTables ==
    {{[id |-> 1, data |-> EntryData("Race", NoGpx, NoRouteData)]},
     {[id |-> 1, data |-> EntryData("Race", GpxName("old.gpx"), OldRoute)]}}

Hooks == {"addEntry", "updateEntry"}

\* the calls that read a file with parseGPX
Parsing == {"parseGPX"} \cup Hooks

(***************************************************************************)
(* RouteVisualization (src/unnamed/part_012)                               *)
(*                                                                         *)
(* The prop routeData may be absent; when present, its stats and its       *)
(* coordinates may each be absent.                                         *)
(***************************************************************************)
NoProp == [present |-> FALSE, hasStats |-> FALSE, stats |-> NoStats,
           hasCoordinates |-> FALSE, coordinates |-> <<>>]

Prop(hasStats, stats, hasCoordinates, coordinates) ==
    [present |-> TRUE, hasStats |-> hasStats, stats |-> stats,
     hasCoordinates |-> hasCoordinates, coordinates |-> coordinates]

TypeError == "TypeError"

\* a value a memo returns, or the exception it throws
Returns(value) == [thrown |-> "", value |-> value]
Throws(error) == [thrown |-> error, value |-> NoStats]

\* lines 229, 248-249: routeData.coordinates && routeData.coordinates.length > 0
HasPoints(prop) == prop.hasCoordinates /\ Len(prop.coordinates) > 0

\* lines 248-251: the stats lack the time the first sample has
Recalculate(prop) ==
    /\ HasPoints(prop)
    /\ TimeTruthy(prop.coordinates[1].time)
    /\ (~prop.stats.hasTimeData \/ prop.stats.averagePacePerMile = Null)

\* lines 213-274: the memo stats; NoStats stands for null.  Line 263 reads
\* routeData.coordinates[0] without asking whether coordinates is there.
StatsMemo(prop) ==
    IF ~prop.present \/ ~prop.hasStats THEN Returns(NoStats)
    ELSE IF Recalculate(prop) THEN Returns(calculateRouteStats(prop.coordinates))
    ELSE IF ~prop.hasCoordinates THEN Throws(TypeError)
    ELSE Returns(prop.stats)

\* lines 322-333: the placeholder is returned
Placeholder == "No route data available"
MapView == "map"

\* lines 211-335: what the component renders, or the exception that leaves it
RouteVisualization(prop) ==
    IF StatsMemo(prop).thrown # "" THEN StatsMemo(prop).thrown
    ELSE IF ~prop.present \/ ~prop.hasCoordinates \/ Len(prop.coordinates) = 0
    THEN Placeholder
    ELSE MapView

\* the props the component is rendered with
Props ==
    {NoProp}
    \cup {Prop(hs, st, hc, <<>>) :
            hs \in BOOLEAN, st \in {NoStats, OldRoute.stats}, hc \in BOOLEAN}
    \cup UNION {{Prop(hs, st, TRUE, c) :
                    hs \in BOOLEAN,
                    st \in {NoStats, calculateRouteStats(c), OldRoute.stats}} :
                c \in UNION {[1..m -> StoredSamples] : m \in 1..2}}

(***************************************************************************)
(* Several calls of parseGPX at once (src/src/lib/gpxParser.js)            *)
(*                                                                         *)
(* Each call has its own FileReader, which fires load or error once.  The  *)
(* callback is given as the sequence of the calls of resolve and reject it *)
(* makes; the promise takes the first.  An exception inside the try block  *)
(* (Math.min(...lats) of line 185 with more arguments than the engine      *)
(* takes) is an input of the call.                                         *)
(***************************************************************************)
\* the number of calls in flight
MaxCalls == 2

Ids == 1..MaxCalls

RangeError == "Maximum call stack size exceeded"

\* line 56
ParseFailed(message) == <<"Failed to parse GPX file: ", message>>

Resolve(value) == [state |-> "fulfilled", reason |-> "", value |-> value]
Reject(reason) == [state |-> "rejected", reason |-> reason, value |-> NoRouteData]

\* variant: the callback goes on after the reject of line 19
OnLoadCallsNoReturn(f, exception) ==
    LET coords == ExtractCoordinates(f.trkpts)
        rest == IF Len(coords) = 0 THEN <<Reject(NoTrackPoints)>>
                ELSE <<Resolve([coordinates |-> coords,
                                stats |-> calculateRouteStats(coords),
                                bounds |-> calculateBounds(coords)])>>
    IN  IF ParseError(f) THEN <<Reject(InvalidFormat)>> \o rest ELSE rest

\* lines 10-58: the calls of resolve and reject that reader.onload makes
OnLoadCalls(f, exception) ==
    LET coords == ExtractCoordinates(f.trkpts)
    IN  IF ParseError(f) THEN <<Reject(InvalidFormat)>>
        ELSE IF Len(coords) = 0 THEN <<Reject(NoTrackPoints)>>
        ELSE IF exception # "" THEN <<Reject(ParseFailed(exception))>>
        ELSE <<Resolve([coordinates |-> coords,
                        stats |-> calculateRouteStats(coords),
                        bounds |-> calculateBounds(coords)])>>

\* line 60: the call that reader.onerror makes
OnErrorCalls == <<Reject(ReadFailed)>>

\* variant: one reader for all the calls
ReaderOfFirst(readers, i) == readers[1]

\* line 8: the reader of call i is its own
ReaderOf(readers, i) == readers[i]

\* the promise after the calls of resolve and reject: the first one counts
Settle(settled, calls) ==
    IF settled.state = "pending" /\ Len(calls) > 0
    THEN [state |-> calls[1].state, reason |-> calls[1].reason]
    ELSE settled

\* the value the promise is resolved with
Settlement(value, settled, calls) ==
    IF settled.state = "pending" /\ Len(calls) > 0 THEN calls[1].value ELSE value

\* the files read at once
PointA == Trkpt(T0, T0, TNone, NoTime)
PointB == Trkpt(T1, T0, T100, NoTime)
PointBad == Trkpt(TAbc, T0, TNone, NoTime)
SomeFiles ==
    {[wellFormed |-> FALSE, trkpts |-> <<PointA>>],
     [wellFormed |-> TRUE, trkpts |-> <<>>],
     [wellFormed |-> TRUE, trkpts |-> <<PointBad>>],
     [wellFormed |-> TRUE, trkpts |-> <<PointA>>],
     [wellFormed |-> TRUE, trkpts |-> <<PointB, PointA>>],
     [wellFormed |-> TRUE, trkpts |-> <<PointA, PointBad, PointB>>]}

\* a reader: its file, whether an event has fired, and the exception its
\* callback meets
Readers ==
    [file : SomeFiles, fired : {""}, exception : {"", RangeError}]

Concurrent == "parseGPX, parseGPX"

(***************************************************************************)
(* useRaceEntries over Firestore (src/unnamed/part_001)                    *)
(*                                                                         *)
(* A document of the store has an id and a medal photo: none, the original *)
(* or the one with its background removed.  A call of loadEntries sends    *)
(* its query, the store answers with what it holds at that moment, and the *)
(* answer comes back later, or the query fails.  The call the hook waits   *)
(* for is load 1; the one the background chain starts is load 2.           *)
(***************************************************************************)
Doc(id, medal) == [id |-> id, medal |-> medal]

\* the entry the call is about, and another one
Mine == "id"
Other == "another id"

WithMedal == {"addEntry, medalPhoto", "updateEntry, medalPhoto"}
Firestore == WithMedal \cup {"deleteEntry"}

IdleLoad == [state |-> "idle", snapshot |-> {}]

\* lines 46, 95: firestoreDb.addEntry, firestoreDb.updateEntry with the
\* processed entry, whose medal photo is the original
Write(docs, op) ==
    IF op = "addEntry, medalPhoto" THEN docs \cup {Doc(Mine, "original")}
    ELSE {IF d.id = Mine THEN Doc(Mine, "original") ELSE d : d \in docs}

\* lines 62-68, 109-115: firestoreDb.updateEntry with the processed medal
WriteMedal(docs) ==
    {IF d.id = Mine THEN Doc(Mine, "processed") ELSE d : d \in docs}

\* line 140: prev.filter(entry => entry.id !== id)
Filter(list, id) == {d \in list : d.id # id}

\* line 142: deleteDoc
Delete(docs, id) == {d \in docs : d.id # id}

DeleteFailed == "delete failed"

\* the stores a call finds
Stores(op) ==
    IF op = "addEntry, medalPhoto" THEN {{}, {Doc(Other, "none")}}
    ELSE {{Doc(Mine, "none")}, {Doc(Mine, "processed"), Doc(Other, "none")}}

(***************************************************************************)
(* The state machine                                                       *)
(***************************************************************************)
VARIABLES
    call,         \* the function that was called
    pc,           \* where the call is
    file,         \* parseGPX: the file
    promise,      \* parseGPX: the promise returned
    routeData,    \* parseGPX: the value the promise is resolved with
    coordinates,  \* calculateRouteStats: the argument
    stats,        \* calculateRouteStats: the value returned
    entries,      \* calculateStats: the argument
    paceData,     \* calculateStats: the local paceData after the loop
    summary,      \* calculateStats: the value returned
    timeString,   \* parseTimeToSeconds: the argument
    seconds,      \* parseTimeToSeconds: the value returned
    entryData,    \* addEntry, updateEntry: the argument
    processed,    \* processEntryImages: the local processed
    table,        \* the table db.raceEntries
    hookEntries,  \* useRaceEntries: the state entries
    thrown,       \* addEntry, updateEntry: what the call threw ("" for nothing)
    prop,         \* RouteVisualization: the prop routeData
    rendered,     \* RouteVisualization: what was rendered ("" before)
    readers,      \* calls at once: the FileReader of each call
    promises,     \* calls at once: the promise of each call
    results,      \* calls at once: the value each promise is resolved with
    settles,      \* calls at once: the calls of resolve and reject, counted
    docs,         \* Firestore: the documents of the user
    shown,        \* useRaceEntries over Firestore: the state entries
    loads,        \* the calls of loadEntries
    bg,           \* the chain started by removeImageBackground
    pending       \* deleteEntry: the error to throw after the reload

\* the variables of the calls modelled further down
parseVars == <<timeString, seconds>>
hookVars == <<entryData, processed, table, hookEntries, thrown>>
viewVars == <<prop, rendered>>
manyVars == <<readers, promises, results, settles>>
fireVars == <<docs, shown, loads, bg, pending>>
others == <<parseVars, hookVars, viewVars, manyVars, fireVars>>

vars ==
    <<call, pc, file, promise, routeData, coordinates, stats, entries, paceData,
      summary, others>>

Init ==
    /\ promise = Pending
    /\ routeData = NoRouteData
    /\ stats = NoStats
    /\ paceData = <<>>
    /\ summary = NoSummary
    /\ processed = NoEntry
    /\ thrown = ""
    /\ \/ /\ call = "parseGPX"
          /\ pc = "reading"
          /\ FileInit(file)
          /\ coordinates = <<>>
          /\ entries = <<>>
       \/ /\ call \in Hooks
          /\ pc = "processing"
          /\ entryData \in FormEntries
          /\ IF IsNewFile(entryData) THEN FormFile(file) ELSE file = NoFile
          /\ coordinates = <<>>
          /\ entries = <<>>
       \/ /\ call = "calculateRouteStats"
          /\ pc = "called"
          /\ file = NoFile
          /\ \E m \in 0..MaxPts : coordinates \in [1..m -> StoredSamples]
          /\ entries = <<>>
       \/ /\ call = "calculateStats"
          /\ pc = "called"
          /\ file = NoFile
          /\ coordinates = <<>>
          /\ \E m \in 0..MaxEntries :
                entries \in [1..m -> PaceEntries] \cup [1..m -> LabelEntries]
       \/ /\ call \in {"parseTimeToSeconds", "RouteVisualization", Concurrent}
                        \cup Firestore
          /\ pc = "called"
          /\ file = NoFile
          /\ coordinates = <<>>
          /\ entries = <<>>
    /\ IF call = "parseTimeToSeconds" THEN timeString \in TimeTexts
       ELSE timeString = NoText
    /\ seconds = Null
    /\ IF call = "RouteVisualization" THEN prop \in Props ELSE prop = NoProp
    /\ rendered = ""
    /\ IF call \in Firestore THEN docs \in Stores(call) ELSE docs = {}
    /\ shown = docs
    /\ loads = [l \in 1..2 |-> IdleLoad]
    /\ bg = "idle"
    /\ pending = ""
    /\ IF call = Concurrent THEN readers \in [Ids -> Readers] ELSE readers = <<>>
    /\ promises = [i \in DOMAIN readers |-> Pending]
    /\ results = [i \in DOMAIN readers |-> NoRouteData]
    /\ settles = [i \in DOMAIN readers |-> 0]
    /\ IF call \in Hooks
       THEN /\ table \in (IF call = "addEntry" THEN {{}} ELSE {}) \cup StoredTables
            /\ hookEntries = table
       ELSE /\ entryData = NoEntry
            /\ table = {}
            /\ hookEntries = {}

\* reader.onload is one callback: each of its three ways out is one action.
\* Nothing in it throws on the tracks of the model, so the catch of lines
\* 55-57 is never entered.

\* lines 17-21: reader.onload with a text that is not well formed
OnLoadInvalid ==
    /\ call \in Parsing /\ pc = "reading"
    /\ ParseError(file)
    /\ promise' = Rejected(InvalidFormat)
    /\ pc' = "settled"
    /\ UNCHANGED <<call, file, routeData, coordinates, stats, entries, paceData, summary, others>>

\* lines 23-45: reader.onload with no point kept
OnLoadNoPoints ==
    /\ call \in Parsing /\ pc = "reading"
    /\ ~ParseError(file)
    /\ Len(ExtractCoordinates(file.trkpts)) = 0
    /\ promise' = Rejected(NoTrackPoints)
    /\ pc' = "settled"
    /\ UNCHANGED <<call, file, routeData, coordinates, stats, entries, paceData, summary, others>>

\* lines 23-54: reader.onload with points kept
OnLoadResolve ==
    /\ call \in Parsing /\ pc = "reading"
    /\ ~ParseError(file)
    /\ LET coords == ExtractCoordinates(file.trkpts)
       IN  /\ Len(coords) # 0
           /\ routeData' = [coordinates |-> coords,
                            stats |-> calculateRouteStats(coords),
                            bounds |-> calculateBounds(coords)]
    /\ promise' = Fulfilled
    /\ pc' = "settled"
    /\ UNCHANGED <<call, file, coordinates, stats, entries, paceData, summary, others>>

\* line 60: reader.onerror
OnError ==
    /\ call \in Parsing /\ pc = "reading"
    /\ promise' = Rejected(ReadFailed)
    /\ pc' = "settled"
    /\ UNCHANGED <<call, file, routeData, coordinates, stats, entries, paceData, summary, others>>

\* a direct call of calculateRouteStats returns
StatsReturn ==
    /\ call = "calculateRouteStats" /\ pc = "called"
    /\ stats' = calculateRouteStats(coordinates)
    /\ pc' = "returned"
    /\ UNCHANGED <<call, file, promise, routeData, coordinates, entries, paceData, summary, others>>

\* a call of calculateStats returns
SummaryReturn ==
    /\ call = "calculateStats" /\ pc = "called"
    /\ summary' = calculateStats(entries)
    /\ paceData' = ForEachEntry(entries, 1, ForEachInit).paceData
    /\ pc' = "returned"
    /\ UNCHANGED <<call, file, promise, routeData, coordinates, stats, entries, others>>

\* a call of parseTimeToSeconds returns
ParseReturn ==
    /\ call = "parseTimeToSeconds" /\ pc = "called"
    /\ seconds' = parseTimeToSeconds(timeString)
    /\ pc' = "returned"
    /\ UNCHANGED <<call, file, promise, routeData, coordinates, stats, entries,
                   paceData, summary, timeString, hookVars, viewVars, manyVars, fireVars>>

\* what no step of a hook changes
single ==
    <<call, file, coordinates, stats, entries, paceData, summary, parseVars,
      viewVars, manyVars, fireVars>>

\* lines 92-93, 214-216, 223-226: processEntryImages copies the entry, then
\* calls parseGPX and waits, or keeps the route data it was given
ProcessStart ==
    /\ call \in Hooks /\ pc = "processing"
    /\ IF IsNewFile(entryData)
       THEN /\ processed' = entryData
            /\ pc' = "reading"
       ELSE /\ processed' = KeepRoute(entryData, entryData)
            /\ pc' = "processed"
    /\ UNCHANGED <<single, promise, routeData, entryData, table, hookEntries, thrown>>

\* lines 216-222, 228: the await of parseGPX is over; an exception that
\* leaves processEntryImages is caught and thrown again by the hook (lines
\* 39-42, 53-56)
ProcessResume ==
    /\ call \in Hooks /\ pc = "settled"
    /\ LET step == GpxStep(processed, entryData, promise, routeData)
       IN  IF step.thrown = ""
           THEN processed' = step.processed /\ pc' = "processed" /\ thrown' = thrown
           ELSE processed' = processed /\ pc' = "failed" /\ thrown' = step.thrown
    /\ UNCHANGED <<single, promise, routeData, entryData, table, hookEntries>>

\* lines 32-36, 48-51: the entry is written
Persist ==
    /\ call \in Hooks /\ pc = "processed"
    /\ table' = IF call = "addEntry" THEN Add(table, processed)
                ELSE Update(table, 1, processed)
    /\ pc' = "saved"
    /\ UNCHANGED <<single, promise, routeData, entryData, processed, hookEntries, thrown>>

\* lines 32, 39-42, 48, 53-56: the write fails
PersistFail ==
    /\ call \in Hooks /\ pc = "processed"
    /\ thrown' = StoreFailed
    /\ pc' = "failed"
    /\ UNCHANGED <<single, promise, routeData, entryData, processed, table, hookEntries>>

\* lines 18-22, 37-38, 52: loadEntries reads the table into the state (the
\* order by date is left out)
Load ==
    /\ call \in Hooks /\ pc = "saved"
    /\ hookEntries' = table
    /\ pc' = "done"
    /\ UNCHANGED <<single, promise, routeData, entryData, processed, table, thrown>>

\* lines 23-26: the read fails, which loadEntries logs
LoadFail ==
    /\ call \in Hooks /\ pc = "saved"
    /\ pc' = "done"
    /\ UNCHANGED <<single, promise, routeData, entryData, processed, table,
                   hookEntries, thrown>>

\* the component is rendered
Render ==
    /\ call = "RouteVisualization" /\ pc = "called"
    /\ rendered' = RouteVisualization(prop)
    /\ pc' = "returned"
    /\ UNCHANGED <<call, file, promise, routeData, coordinates, stats, entries,
                   paceData, summary, parseVars, hookVars, prop, manyVars, fireVars>>

\* what no step of the calls at once changes
alone ==
    <<call, pc, file, promise, routeData, coordinates, stats, entries, paceData,
      summary, parseVars, hookVars, viewVars, fireVars>>

\* the calls of resolve and reject take effect on the promise of call i
Fire(i, event, calls) ==
    /\ readers' = [readers EXCEPT ![i].fired = event]
    /\ promises' = [promises EXCEPT ![i] = Settle(promises[i], calls)]
    /\ results' = [results EXCEPT ![i] = Settlement(results[i], promises[i], calls)]
    /\ settles' = [settles EXCEPT ![i] = settles[i] + Len(calls)]
    /\ UNCHANGED alone

\* lines 10-58: the reader of call i fires load
OnLoadOf(i) ==
    /\ call = Concurrent
    /\ readers[i].fired = ""
    /\ Fire(i, "load", OnLoadCalls(ReaderOf(readers, i).file, ReaderOf(readers, i).exception))

\* line 60: the reader of call i fires error
OnErrorOf(i) ==
    /\ call = Concurrent
    /\ readers[i].fired = ""
    /\ Fire(i, "error", OnErrorCalls)

\* what no step of the hook over Firestore changes
apart ==
    <<call, file, promise, routeData, coordinates, stats, entries, paceData,
      summary, parseVars, hookVars, viewVars, manyVars>>

\* lines 45-46, 94-95: the entry is written
FsWrite ==
    /\ call \in WithMedal /\ pc = "called"
    /\ docs' = Write(docs, call)
    /\ pc' = "written"
    /\ UNCHANGED <<apart, shown, loads, bg, pending>>

\* lines 45-46, 82-85, 94-95, 127-130: the write fails and the hook throws
FsWriteFail ==
    /\ call \in WithMedal /\ pc = "called"
    /\ pc' = "threw"
    /\ UNCHANGED <<apart, docs, shown, loads, bg, pending>>

\* lines 49-80, 98-126: after compressImage the chain of
\* removeImageBackground is started and not waited for, then loadEntries is
\* called and waited for
StartBackground ==
    /\ call \in WithMedal /\ pc = "written"
    /\ bg' = "running"
    /\ loads' = [loads EXCEPT ![1].state = "sent"]
    /\ pc' = "loading"
    /\ UNCHANGED <<apart, docs, shown, pending>>

\* lines 53-69, 100-116: background removed, cropped, uploaded, and the
\* entry updated with the processed medal
BgUpdate ==
    /\ bg = "running"
    /\ docs' = WriteMedal(docs)
    /\ bg' = "updated"
    /\ UNCHANGED <<apart, pc, shown, loads, pending>>

\* lines 74-76, 121-123: a step of the chain fails
BgFail ==
    /\ bg = "running"
    /\ bg' = "failed"
    /\ UNCHANGED <<apart, pc, docs, shown, loads, pending>>

\* lines 70-73, 117-120: the chain calls loadEntries
BgReload ==
    /\ bg = "updated"
    /\ loads' = [loads EXCEPT ![2].state = "sent"]
    /\ bg' = "done"
    /\ UNCHANGED <<apart, pc, docs, shown, pending>>

\* line 140: the entry leaves the state before the delete is sent
DeleteStart ==
    /\ call = "deleteEntry" /\ pc = "called"
    /\ shown' = Filter(shown, Mine)
    /\ pc' = "deleting"
    /\ UNCHANGED <<apart, docs, loads, bg, pending>>

\* lines 142-144: the delete succeeds, loadEntries is called
DeleteDone ==
    /\ call = "deleteEntry" /\ pc = "deleting"
    /\ docs' = Delete(docs, Mine)
    /\ loads' = [loads EXCEPT ![1].state = "sent"]
    /\ pc' = "loading"
    /\ UNCHANGED <<apart, shown, bg, pending>>

\* lines 142, 145-147: the delete fails, loadEntries is called
DeleteFail ==
    /\ call = "deleteEntry" /\ pc = "deleting"
    /\ pending' = DeleteFailed
    /\ loads' = [loads EXCEPT ![1].state = "sent"]
    /\ pc' = "loading"
    /\ UNCHANGED <<apart, docs, shown, bg>>

\* where the hook is once load l is over: the call that waited for load 1
\* returns, or throws the error of the delete (lines 80-81, 126, 144-149)
AfterLoad(l) ==
    IF l = 1 THEN (IF pending = "" THEN "returned" ELSE "threw") ELSE pc

\* line 30: the store answers the query of load l
LoadRead(l) ==
    /\ loads[l].state = "sent"
    /\ loads' = [loads EXCEPT ![l] = [state |-> "read", snapshot |-> docs]]
    /\ UNCHANGED <<apart, pc, docs, shown, bg, pending>>

\* lines 30-32: the answer of load l arrives, setEntries
LoadDeliver(l) ==
    /\ loads[l].state = "read"
    /\ shown' = loads[l].snapshot
    /\ loads' = [loads EXCEPT ![l].state = "done"]
    /\ pc' = AfterLoad(l)
    /\ UNCHANGED <<apart, docs, bg, pending>>

\* lines 33-36: the query of load l fails, which loadEntries logs
LoadReject(l) ==
    /\ loads[l].state \in {"sent", "read"}
    /\ loads' = [loads EXCEPT ![l].state = "failed"]
    /\ pc' = AfterLoad(l)
    /\ UNCHANGED <<apart, docs, shown, bg, pending>>

Next ==
    \/ OnLoadInvalid \/ OnLoadNoPoints \/ OnLoadResolve \/ OnError
    \/ StatsReturn \/ SummaryReturn \/ ParseReturn
    \/ ProcessStart \/ ProcessResume \/ Persist \/ PersistFail \/ Load \/ LoadFail
    \/ Render
    \/ \E i \in Ids : OnLoadOf(i)
    \/ \E i \in Ids : OnErrorOf(i)
    \/ FsWrite \/ FsWriteFail \/ StartBackground \/ BgUpdate \/ BgFail \/ BgReload
    \/ DeleteStart \/ DeleteDone \/ DeleteFail
    \/ \E l \in 1..2 : LoadRead(l)
    \/ \E l \in 1..2 : LoadDeliver(l)
    \/ \E l \in 1..2 : LoadReject(l)

Spec == Init /\ [][Next]_vars

(***************************************************************************)
(* What the properties speak of                                            *)
(***************************************************************************)
\* the file's text was read and the promise is resolved
Resolved == call = "parseGPX" /\ pc = "settled" /\ promise = Fulfilled

\* reader.onload has run to its end
Loaded == call = "parseGPX" /\ pc = "settled" /\ promise # Rejected(ReadFailed)

\* calculateRouteStats has returned, called by parseGPX or directly
StatsDone == Resolved \/ (call = "calculateRouteStats" /\ pc = "returned")

\* its argument and its result
In == IF call = "calculateRouteStats" THEN coordinates ELSE routeData.coordinates
Out == IF call = "calculateRouteStats" THEN stats ELSE routeData.stats

\* the sum of f over the finite set S
RECURSIVE SumSet(_, _)
SumSet(S, f) ==
    IF S = {} THEN 0
    ELSE LET x == CHOOSE y \in S : TRUE IN f[x] + SumSet(S \ {x}, f)

\* the indices of the consecutive pairs (i - 1, i) of a sequence
Pairs(seq) == 2..Len(seq)

\* the sample carries a timestamp
HasTimestamp(sample) == sample.time.kind \notin {"null", "absent", "empty"}

\* the seconds from the instant of sample i - 1 to that of sample i, when
\* both timestamps are valid instants
Delta(seq, i) == seq[i].time.at - seq[i - 1].time.at
ValidPair(seq, i) == seq[i].time.kind = "iso" /\ seq[i - 1].time.kind = "iso"

\* the pairs whose delta is accepted, and the sum of their deltas
Accepted(seq) ==
    {i \in Pairs(seq) : ValidPair(seq, i) /\ 0 < Delta(seq, i) /\ Delta(seq, i) < 3600}
AcceptedTime(seq) == SumSet(Accepted(seq), [i \in Accepted(seq) |-> Delta(seq, i)])

\* the trkpt elements of the file that pass validation
Survivors(trkpts) ==
    {i \in 1..Len(trkpts) :
        ~IsNaN(ParseFloat(trkpts[i].lat)) /\ ~IsNaN(ParseFloat(trkpts[i].lon))}

\* the n-th surviving element, in document order
NthSurvivor(trkpts, n) ==
    CHOOSE i \in Survivors(trkpts) :
        Cardinality({j \in Survivors(trkpts) : j <= i}) = n

(***************************************************************************)
(* C1  The pace fields of calculateRouteStats are both non-null exactly    *)
(* when hasTimeData holds, the accumulated time is > 0 and the accumulated *)
(* distance is > 0; in every other case both are null.                     *)
(***************************************************************************)
C1_PaceGate ==
    StatsDone =>
        LET gate == /\ Out.hasTimeData
                    /\ AcceptedTime(In) > 0
                    /\ Out.distance.k = "num" /\ Out.distance.v > 0
        IN  /\ (Out.averagePace # Null) <=> gate
            /\ (Out.averagePacePerMile # Null) <=> gate

\* a track with time but no distance covered: two of the three conditions
C1_Witness ==
    /\ StatsDone
    /\ Out.hasTimeData /\ Out.totalTime # Null /\ Out.distance = Num(0)
    /\ Out.averagePace = Null /\ Out.averagePacePerMile = Null

(***************************************************************************)
(* C2  totalTime is the sum of the deltas of the consecutive pairs whose   *)
(* timestamps are both valid instants and whose delta is in (0, 3600),     *)
(* when hasTimeData holds; every other delta adds 0.  It is null when      *)
(* hasTimeData is false or that sum is zero.                               *)
(***************************************************************************)
C2_TotalTime ==
    StatsDone =>
        Out.totalTime = IF Out.hasTimeData /\ AcceptedTime(In) > 0
                        THEN Num(AcceptedTime(In)) ELSE Null

\* a pair 3600 seconds or more apart adds nothing, a pair 1800 apart adds 1800
C2_Witness ==
    /\ StatsDone
    /\ \E i \in Pairs(In) : ValidPair(In, i) /\ Delta(In, i) >= 3600
    /\ \E i \in Pairs(In) : ValidPair(In, i) /\ Delta(In, i) = 1800
    /\ Out.totalTime = Num(1800)

(***************************************************************************)
(* C3  hasTimeData is true iff one of the first min(n, 10) samples carries *)
(* a timestamp; a sequence whose timestamps all lie at index 10 (counted   *)
(* from 0) or later has hasTimeData false, totalTime null and both pace    *)
(* fields null.                                                            *)
(***************************************************************************)
C3_TimeProbe ==
    StatsDone =>
        /\ Out.hasTimeData <=>
              \E i \in 1..Len(In) : i <= 10 /\ HasTimestamp(In[i])
        /\ (\A i \in 1..Len(In) : HasTimestamp(In[i]) => i > 10) =>
              /\ ~Out.hasTimeData
              /\ Out.totalTime = Null
              /\ Out.averagePace = Null /\ Out.averagePacePerMile = Null

\* timestamps from index 10 on only, with a valid pair among them
C3_Witness ==
    /\ StatsDone
    /\ \A i \in 1..Len(In) : HasTimestamp(In[i]) => i > 10
    /\ Accepted(In) # {}
    /\ ~Out.hasTimeData

C5_LenientSkip ==
    (Loaded /\ file.wellFormed /\ Survivors(file.trkpts) # {}) =>
        /\ promise = Fulfilled
        /\ Len(routeData.coordinates) = Cardinality(Survivors(file.trkpts))
        /\ routeData.stats.pointsCount = Cardinality(Survivors(file.trkpts))

\* one valid point among ten malformed ones
C5_Witness ==
    /\ Resolved
    /\ Len(file.trkpts) - Cardinality(Survivors(file.trkpts)) >= 10
    /\ routeData.stats.pointsCount = 1

(***************************************************************************)
(* C6  Every sample of the coordinates parseGPX resolves with has a        *)
(* latitude and a longitude that are finite numbers.                       *)
(***************************************************************************)
C6_FiniteSamples ==
    Resolved =>
        \A i \in 1..Len(routeData.coordinates) :
            /\ IsFinite(routeData.coordinates[i].lat)
            /\ IsFinite(routeData.coordinates[i].lon)

(***************************************************************************)
(* C7  A trkpt whose ele child holds a text that is no number is kept with *)
(* the elevation null, and so adds nothing to elevationGain, minElevation  *)
(* and maxElevation.                                                       *)
(***************************************************************************)
NonNumericEle(trkpt) == Truthy(trkpt.ele) /\ IsNaN(ParseFloat(trkpt.ele))

C7_NonNumericElevation ==
    (Resolved /\ Len(routeData.coordinates) = Len(file.trkpts)) =>
        LET absent == [i \in 1..Len(file.trkpts) |->
                          IF NonNumericEle(file.trkpts[i])
                          THEN [routeData.coordinates[i] EXCEPT !.elevation = Null]
                          ELSE routeData.coordinates[i]]
        IN  /\ routeData.coordinates = absent
            /\ routeData.stats.elevationGain = calculateRouteStats(absent).elevationGain
            /\ routeData.stats.minElevation = calculateRouteStats(absent).minElevation
            /\ routeData.stats.maxElevation = calculateRouteStats(absent).maxElevation

(***************************************************************************)
(* C8  The coordinates parseGPX resolves with are the trkpt elements that  *)
(* pass validation, in document order, each once.                          *)
(***************************************************************************)
C8_DocumentOrder ==
    Resolved =>
        /\ Len(routeData.coordinates) = Cardinality(Survivors(file.trkpts))
        /\ \A n \in 1..Len(routeData.coordinates) :
              routeData.coordinates[n] = Sample(file.trkpts[NthSurvivor(file.trkpts, n)])

\* two different points survive, with a dropped point between them
C8_Witness ==
    /\ Resolved
    /\ Len(file.trkpts) = 3 /\ Survivors(file.trkpts) = {1, 3}
    /\ routeData.coordinates[1] # routeData.coordinates[2]

(***************************************************************************)
(* C9  elevationGain is the sum of curr.elevation - prev.elevation over    *)
(* the consecutive pairs in which both samples carry an elevation and      *)
(* curr.elevation > prev.elevation; it is never negative.                  *)
(***************************************************************************)
Climbs(seq) ==
    {i \in Pairs(seq) :
        /\ seq[i - 1].elevation # Null /\ seq[i].elevation # Null
        /\ JsGt(seq[i].elevation, seq[i - 1].elevation)}

\* the sum of the climbs: infinite as soon as one climb is
ClimbSum(seq) ==
    IF \E i \in Climbs(seq) : ~IsFinite(seq[i].elevation) \/ ~IsFinite(seq[i - 1].elevation)
    THEN PosInf
    ELSE Num(SumSet(Climbs(seq),
                    [i \in Climbs(seq) |-> seq[i].elevation.v - seq[i - 1].elevation.v]))

C9_ElevationGain ==
    StatsDone =>
        /\ Out.elevationGain = ClimbSum(In)
        /\ Out.elevationGain = Num(0) \/ JsGt(Out.elevationGain, Num(0))

\* a descent followed by a climb
C9_Witness ==
    /\ StatsDone
    /\ \E i \in Pairs(In) :
          /\ IsFinite(In[i].elevation) /\ IsFinite(In[i - 1].elevation)
          /\ In[i].elevation.v < In[i - 1].elevation.v
    /\ Climbs(In) # {}
    /\ IsFinite(Out.elevationGain) /\ Out.elevationGain.v > 0

(***************************************************************************)
(* C10  For three samples with the elevations 100, 80, 120, in that order, *)
(* calculateRouteStats returns minElevation 80 and maxElevation 120, and   *)
(* elevationGain 40: the climb from 80 to 120 (the claim as written has    *)
(* elevationGain 20).                                                      *)
(***************************************************************************)
Elevations100_80_120 ==
    /\ Len(In) = 3
    /\ In[1].elevation = Num(100) /\ In[2].elevation = Num(80)
    /\ In[3].elevation = Num(120)

C10_Gain40 ==
    (StatsDone /\ Elevations100_80_120) =>
        /\ Out.elevationGain = Num(40)
        /\ Out.minElevation = Num(80)
        /\ Out.maxElevation = Num(120)

\* the claim as written: elevationGain 20
C10_Gain20 ==
    (StatsDone /\ Elevations100_80_120) =>
        /\ Out.elevationGain = Num(20)
        /\ Out.minElevation = Num(80)
        /\ Out.maxElevation = Num(120)

C10_Witness == StatsDone /\ Elevations100_80_120

(***************************************************************************)
(* C11  minElevation and maxElevation are the minimum and the maximum over *)
(* all the samples that carry an elevation, a sample with no neighbour     *)
(* that carries one and the sample of a one-point track included; they are *)
(* null only when no sample carries an elevation.                          *)
(***************************************************************************)
\* the elevations carried by the samples (finite ones: the property is
\* stated for the tracks whose elevations are numbers)
Carried(seq) == {seq[i].elevation.v : i \in {j \in 1..Len(seq) : seq[j].elevation # Null}}
FiniteElevations(seq) ==
    \A i \in 1..Len(seq) : seq[i].elevation = Null \/ IsFinite(seq[i].elevation)

C11_MinMaxOverSamples ==
    (StatsDone /\ FiniteElevations(In)) =>
        IF Carried(In) = {}
        THEN Out.minElevation = Null /\ Out.maxElevation = Null
        ELSE /\ Out.minElevation = Num(CHOOSE m \in Carried(In) : \A e \in Carried(In) : m <= e)
             /\ Out.maxElevation = Num(CHOOSE m \in Carried(In) : \A e \in Carried(In) : m >= e)

(***************************************************************************)
(* C12  distance is the sum of the great-circle distances of the           *)
(* consecutive pairs, never the distance from start to end: it is >= 0     *)
(* for every input, and a track A, B, A has twice the distance from A to   *)
(* B.                                                                      *)
(***************************************************************************)
PairDistance(seq, i) ==
    haversineDistance(seq[i - 1].lat, seq[i - 1].lon, seq[i].lat, seq[i].lon)

FiniteCoordinates(seq) ==
    \A i \in 1..Len(seq) : IsFinite(seq[i].lat) /\ IsFinite(seq[i].lon)

OutAndBack(seq) ==
    /\ Len(seq) = 3 /\ FiniteCoordinates(seq)
    /\ seq[1].lat = seq[3].lat /\ seq[1].lon = seq[3].lon
    /\ seq[1].lat # seq[2].lat \/ seq[1].lon # seq[2].lon

C12_PathDistance ==
    StatsDone =>
        /\ IsFinite(Out.distance) /\ Out.distance.v >= 0
        /\ FiniteCoordinates(In) =>
              Out.distance =
                 Num(SumSet(Pairs(In), [i \in Pairs(In) |-> PairDistance(In, i).v]))
        /\ OutAndBack(In) =>
              Out.distance.v = 2 * PairDistance(In, 2).v /\ Out.distance.v > 0

\* the same for the tracks whose coordinates are all finite numbers
C12_PathDistanceFinite == (StatsDone /\ FiniteCoordinates(In)) => C12_PathDistance

(***************************************************************************)
(* C13  On a sequence of n <= 1 samples calculateRouteStats returns        *)
(* pointsCount n, distance 0, elevationGain 0, totalTime null and both     *)
(* pace fields null; hasTimeData is true only if the single sample carries *)
(* a timestamp.                                                            *)
(***************************************************************************)
C13_ShortSequences ==
    (StatsDone /\ Len(In) <= 1) =>
        /\ Out.pointsCount = Len(In)
        /\ Out.distance = Num(0)
        /\ Out.elevationGain = Num(0)
        /\ Out.totalTime = Null
        /\ Out.averagePace = Null /\ Out.averagePacePerMile = Null
        /\ Out.hasTimeData <=> (Len(In) = 1 /\ HasTimestamp(In[1]))

\* the empty sequence
C13_Witness == StatsDone /\ Len(In) = 0 /\ Out.pointsCount = 0

(***************************************************************************)
(* C14  With Earth radius 6371 km, two identical points are 0 km apart and *)
(* two points one degree of longitude apart on the equator are 111.19 km   *)
(* apart, within 0.5 km.                                                   *)
(***************************************************************************)
OnEquator(seq) ==
    /\ Len(seq) = 2 /\ FiniteCoordinates(seq)
    /\ seq[1].lat = Num(0) /\ seq[2].lat = Num(0)

C14_Haversine ==
    (StatsDone /\ OnEquator(In)) =>
        /\ In[1].lon = In[2].lon => Out.distance = Num(0)
        /\ (In[1].lon.v - In[2].lon.v \in {1, -1}) =>
              /\ Out.distance.v >= 111190 - 500
              /\ Out.distance.v <= 111190 + 500

\* one degree of longitude apart on the equator
C14_Witness ==
    /\ StatsDone /\ OnEquator(In)
    /\ In[2].lon.v - In[1].lon.v = 1
    /\ Out.distance.v > 0

(***************************************************************************)
(* C15  The bounds of a RouteData parseGPX resolves with have              *)
(* minLat <= maxLat and minLon <= maxLon, hold every sample, and each of   *)
(* the four is the value of some sample; they are never computed from no   *)
(* sample.                                                                 *)
(***************************************************************************)
JsLe(a, b) == ~IsNaN(a) /\ ~IsNaN(b) /\ ~JsGt(a, b)

C15_Bounds ==
    /\ Resolved =>
          LET c == routeData.coordinates
              b == routeData.bounds
          IN  /\ Len(c) > 0
              /\ JsLe(b.minLat, b.maxLat) /\ JsLe(b.minLon, b.maxLon)
              /\ \A i \in 1..Len(c) :
                    /\ JsLe(b.minLat, c[i].lat) /\ JsLe(c[i].lat, b.maxLat)
                    /\ JsLe(b.minLon, c[i].lon) /\ JsLe(c[i].lon, b.maxLon)
              /\ \E i \in 1..Len(c) : c[i].lat = b.minLat
              /\ \E i \in 1..Len(c) : c[i].lat = b.maxLat
              /\ \E i \in 1..Len(c) : c[i].lon = b.minLon
              /\ \E i \in 1..Len(c) : c[i].lon = b.maxLon
    /\ (call = "parseGPX" /\ ~Resolved) => routeData.bounds = NoBounds

\* a box with an extent in both directions
C15_Witness ==
    /\ Resolved
    /\ JsGt(routeData.bounds.maxLat, routeData.bounds.minLat)
    /\ JsGt(routeData.bounds.maxLon, routeData.bounds.minLon)

(***************************************************************************)
(* calculateStats: the claims                                              *)
(***************************************************************************)
SummaryDone == call = "calculateStats" /\ pc = "returned"

\* the entry has a measured distance: route statistics whose distance is a
\* number above 0
Measured(entry) ==
    /\ entry.routeData.present
    /\ entry.routeData.distance.k = "num"
    /\ entry.routeData.distance.v > 0

\* the entry has a measured time
Timed(entry) ==
    /\ entry.routeData.present
    /\ entry.routeData.totalTime.k = "num"
    /\ entry.routeData.totalTime.v > 0

\* the entry has nothing but a label
LabelOnly(entry) ==
    ~entry.routeData.present /\ (entry.raceDistance # "" \/ entry.raceType # "")

\* C16: the total distance is the sum of the measured distances of the
\* entries that have one; an entry with only a label adds nothing and no
\* nominal distance of a label is added.
C16_TotalDistance ==
    SummaryDone =>
        summary.totalDistance =
            SumSet({i \in 1..Len(entries) : Measured(entries[i])},
                   [i \in 1..Len(entries) |-> entries[i].routeData.distance.v])

C16_Witness ==
    /\ SummaryDone
    /\ \E i \in 1..Len(entries) :
          LabelOnly(entries[i]) /\ entries[i].raceDistance = "Marathon"
    /\ \E i \in 1..Len(entries) : Measured(entries[i])
    /\ summary.totalDistance = 5000

\* the entry has a measured distance, no measured time and a finish time
\* that parses to a positive number of seconds
FinishOnly(entry) ==
    /\ Measured(entry)
    /\ ~Timed(entry)
    /\ parseTimeToSeconds(entry.finishTime).k = "num"
    /\ parseTimeToSeconds(entry.finishTime).v > 0

\* C17: an entry with a measured distance, a finish time that parses to a
\* positive number of seconds and no measured time gives exactly one pace
\* sample, the finish time divided by the measured distance.
C17_FinishTimeFallback ==
    SummaryDone =>
        /\ Len(paceData) >= Cardinality({i \in 1..Len(entries) : FinishOnly(entries[i])})
        /\ (Len(entries) = 1 /\ FinishOnly(entries[1])) =>
              paceData = <<(parseTimeToSeconds(entries[1].finishTime).v * 100000)
                               \div entries[1].routeData.distance.v>>

\* the ways to give each entry no sample or one
Shares == [1..Len(entries) -> {0, 1}]

\* the samples of the entries up to i, under g
Upto(g, i) == SumSet(1..i, g)

\* C18: each entry gives at most one pace sample, and an entry with both a
\* measured distance and a measured time gives totalTime / distance, whatever
\* its finish time.
C18_MeasuredPace ==
    SummaryDone =>
        \E g \in Shares :
            /\ Len(paceData) = Upto(g, Len(entries))
            /\ \A i \in 1..Len(entries) :
                  (Measured(entries[i]) /\ Timed(entries[i])) =>
                      /\ g[i] = 1
                      /\ paceData[Upto(g, i)] =
                            (entries[i].routeData.totalTime.v * 100000)
                                \div entries[i].routeData.distance.v

C18_Witness ==
    /\ SummaryDone
    /\ Len(entries) >= 2
    /\ \E i \in 1..Len(entries) :
          /\ Measured(entries[i]) /\ Timed(entries[i])
          /\ Truthy(entries[i].finishTime)
          /\ parseTimeToSeconds(entries[i].finishTime).v
                # entries[i].routeData.totalTime.v
    /\ Len(paceData) >= 1

\* C19: an entry without a measured distance gives no pace sample, whatever
\* its finish time and its label: no sample comes from the nominal distance
\* of a label.
C19_NoNominalPace ==
    SummaryDone =>
        \E g \in Shares :
            /\ Len(paceData) = Upto(g, Len(entries))
            /\ \A i \in 1..Len(entries) : ~Measured(entries[i]) => g[i] = 0

C19_Witness ==
    /\ SummaryDone
    /\ \E i \in 1..Len(entries) :
          /\ ~Measured(entries[i])
          /\ getDistanceInKm(CategoricalDistance(entries[i])) > 0
          /\ Positive(parseTimeToSeconds(entries[i].finishTime))
    /\ paceData = <<>>
    /\ summary.averagePace = NoText

\* the entries that carry the label
Carrying(label) ==
    {i \in 1..Len(entries) : CategoricalDistance(entries[i]) = label}

\* the labels of the entries
LabelsSeen == {CategoricalDistance(entries[i]) : i \in 1..Len(entries)} \ {""}

\* the first entry that carries the label
FirstSeen(label) == CHOOSE i \in Carrying(label) : \A j \in Carrying(label) : i <= j

\* C20: the favourite distance is the label carried by most entries, with or
\* without route data; of several such labels the one first met wins; there
\* is none when no entry has a label.
C20_FavoriteDistance ==
    SummaryDone =>
        IF LabelsSeen = {} THEN summary.favoriteDistance = ""
        ELSE /\ summary.favoriteDistance \in LabelsSeen
             /\ \A l \in LabelsSeen \ {summary.favoriteDistance} :
                   \/ Cardinality(Carrying(l))
                         < Cardinality(Carrying(summary.favoriteDistance))
                   \/ /\ Cardinality(Carrying(l))
                            = Cardinality(Carrying(summary.favoriteDistance))
                      /\ FirstSeen(summary.favoriteDistance) < FirstSeen(l)

C20_Witness ==
    /\ SummaryDone
    /\ Len(entries) = 3
    /\ summary.favoriteDistance = CategoricalDistance(entries[1])
    /\ \E l \in LabelsSeen \ {summary.favoriteDistance} :
          /\ Cardinality(Carrying(l)) = Cardinality(Carrying(summary.favoriteDistance))
          /\ Carrying(l) = {3}
    /\ \E i \in 1..Len(entries) : entries[i].routeData.present

\* the mean of the samples, in whole seconds per kilometre
MeanSeconds == (SumSet(1..Len(paceData), paceData) \div Len(paceData)) \div 100

\* the text is minutes, a colon, two digits of seconds below 60 and "/km",
\* and reads as the given number of seconds
ReadsAs(text, secs) ==
    LET chars == text.s
        n == Len(chars)
    IN  /\ text.has
        /\ n >= 7
        /\ SubSeq(chars, n - 2, n) = <<"/", "k", "m">>
        /\ chars[n - 5] = ":"
        /\ \A i \in (1..(n - 6)) \cup {n - 4, n - 3} : chars[i] \in Digits
        /\ DigitsValue(SubSeq(chars, n - 4, n - 3), 1, 0) < 60
        /\ DigitsValue(SubSeq(chars, 1, n - 6), 1, 0) * 60
              + DigitsValue(SubSeq(chars, n - 4, n - 3), 1, 0) = secs

\* C21: the average pace is null exactly when no pace sample was collected;
\* otherwise it is the mean of the samples (not total time over total
\* distance), written as minutes, a colon, two digits of seconds in 00..59
\* and "/km".
C21_AveragePace ==
    SummaryDone =>
        /\ (summary.averagePace = NoText) <=> (Len(paceData) = 0)
        /\ Len(paceData) > 0 => ReadsAs(summary.averagePace, MeanSeconds)

\* two runs, 5 km in 1500 s and 10 km in 3600 s: the mean pace is 5:30, the
\* total time over the total distance would be 5:40
C21_Witness ==
    /\ SummaryDone
    /\ Len(paceData) = 2
    /\ paceData[1] # paceData[2]
    /\ summary.totalDistance = 15000
    /\ summary.averagePace = Text(<<"5", ":", "3", "0", "/", "k", "m">>)

\* C23: calculateStats returns for every collection, with totalRaces the
\* number of entries; the empty collection gives 0, 0, null and null.
C23_TotalRaces ==
    /\ (call = "calculateStats" /\ pc = "called") => ENABLED SummaryReturn
    /\ SummaryDone =>
          /\ summary.totalRaces = Len(entries)
          /\ entries = <<>> =>
                /\ summary.totalDistance = 0
                /\ summary.averagePace = NoText
                /\ summary.favoriteDistance = ""

C23_Witness ==
    /\ SummaryDone
    /\ Len(entries) = 3
    /\ summary.totalRaces = 3
    /\ \E i \in 1..3 : ~HasStats(entries[i])
    /\ \E i \in 1..3 : HasStats(entries[i])

(***************************************************************************)
(* parseTimeToSeconds: the claims                                          *)
(***************************************************************************)
ParseDone == call = "parseTimeToSeconds" /\ pc = "returned"

\* the places of the colons of the text
Colons(chars) == {i \in 1..Len(chars) : chars[i] = ":"}

\* a non-empty run of digits
IsInteger(chars) == Len(chars) > 0 /\ \A i \in 1..Len(chars) : chars[i] \in Digits

\* the text is digits, a colon, digits, a colon and digits
IsHMS(chars) ==
    \E i, j \in Colons(chars) :
        /\ i < j
        /\ Colons(chars) = {i, j}
        /\ IsInteger(SubSeq(chars, 1, i - 1))
        /\ IsInteger(SubSeq(chars, i + 1, j - 1))
        /\ IsInteger(SubSeq(chars, j + 1, Len(chars)))

\* the text is digits, a colon and digits
IsMS(chars) ==
    \E i \in Colons(chars) :
        /\ Colons(chars) = {i}
        /\ IsInteger(SubSeq(chars, 1, i - 1))
        /\ IsInteger(SubSeq(chars, i + 1, Len(chars)))

\* the value of the digits from a to b
Value(chars, a, b) == DigitsValue(SubSeq(chars, a, b), 1, 0)

\* the seconds of a text of one of the three shapes
ShapeSeconds(chars) ==
    LET c == Colons(chars)
        i == CHOOSE x \in c : \A y \in c : x <= y
        j == CHOOSE x \in c : \A y \in c : x >= y
    IN  IF IsHMS(chars)
        THEN Value(chars, 1, i - 1) * 3600 + Value(chars, i + 1, j - 1) * 60
                 + Value(chars, j + 1, Len(chars))
        ELSE IF IsMS(chars)
        THEN Value(chars, 1, i - 1) * 60 + Value(chars, i + 1, Len(chars))
        ELSE Value(chars, 1, Len(chars))

\* C22 as stated: the three shapes give their seconds, a bare integer gives
\* itself, and every other text gives null.
C22_ParseShapes ==
    ParseDone =>
        IF timeString.has
           /\ (IsHMS(timeString.s) \/ IsMS(timeString.s) \/ IsInteger(timeString.s))
        THEN seconds = Num(ShapeSeconds(timeString.s))
        ELSE seconds = Null

\* what a part between two colons counts for: its digits, with spaces around
\* them, as a number; 0 when it is empty or anything else
Counts(chars, a, b) ==
    IF \E i, j \in a..b :
          /\ i <= j
          /\ \A k \in a..b : IF k \in i..j THEN chars[k] \in Digits ELSE chars[k] = " "
    THEN LET i == CHOOSE x \in a..b : chars[x] \in Digits /\ \A y \in a..(x - 1) : chars[y] = " "
             j == CHOOSE x \in a..b : chars[x] \in Digits /\ \A y \in (x + 1)..b : chars[y] = " "
         IN  Value(chars, i, j)
    ELSE 0

\* the text without the spaces at its ends
Inner(chars) ==
    IF \A k \in 1..Len(chars) : chars[k] = " " THEN <<>>
    ELSE LET i == CHOOSE x \in 1..Len(chars) :
                      chars[x] # " " /\ \A y \in 1..(x - 1) : chars[y] = " "
             j == CHOOSE x \in 1..Len(chars) :
                      chars[x] # " " /\ \A y \in (x + 1)..Len(chars) : chars[y] = " "
         IN  SubSeq(chars, i, j)

\* the seconds of a text read part by part
LenientSeconds(chars) ==
    LET c == Colons(chars)
        i == CHOOSE x \in c : \A y \in c : x <= y
        j == CHOOSE x \in c : \A y \in c : x >= y
    IN  IF Cardinality(c) = 2
        THEN Num(Counts(chars, 1, i - 1) * 3600 + Counts(chars, i + 1, j - 1) * 60
                     + Counts(chars, j + 1, Len(chars)))
        ELSE IF Cardinality(c) = 1
        THEN Num(Counts(chars, 1, i - 1) * 60 + Counts(chars, i + 1, Len(chars)))
        ELSE IF Cardinality(c) = 0 /\ Counts(chars, 1, Len(chars)) > 0
        THEN Num(Counts(chars, 1, Len(chars)))
        ELSE Null

\* the finish time of the entry has none of the three shapes
OddFinishTime(entry) ==
    /\ Truthy(entry.finishTime)
    /\ ~IsHMS(entry.finishTime.s)
    /\ ~IsMS(entry.finishTime.s)
    /\ ~IsInteger(entry.finishTime.s)

\* C22, amended: a missing or empty text gives null.  Otherwise the text,
\* without the spaces at its ends, is cut at its colons, and a part counts as
\* its number, or as 0 when it is empty or no number: three parts give
\* H*3600 + M*60 + S, two parts M*60 + S, one part itself when it is above 0
\* and null otherwise, four parts or more null.  So "x:y" gives 0 and "0"
\* gives null.  An entry whose finish time has none of the three shapes gives
\* no pace sample from it, and calculateStats returns.
C22_ParseLenient ==
    /\ ParseDone =>
          IF ~timeString.has \/ timeString.s = <<>> THEN seconds = Null
          ELSE seconds = LenientSeconds(Inner(timeString.s))
    /\ (SummaryDone /\ Len(entries) = 1 /\ OddFinishTime(entries[1])
           /\ ~(Measured(entries[1]) /\ Timed(entries[1]))) =>
          paceData = <<>> /\ summary.totalRaces = 1

\* "x:y" gives 0, not null
C22_Witness ==
    /\ ParseDone
    /\ timeString = Text(<<"x", ":", "y">>)
    /\ seconds = Num(0)

(***************************************************************************)
(* useRaceEntries over IndexedDB: the claims                               *)
(***************************************************************************)
\* the reasons parseGPX rejects with
ParseReasons == {InvalidFormat, NoTrackPoints, ReadFailed}

\* the hook is past processEntryImages
Processed == call \in Hooks /\ pc \in {"processed", "saved", "done", "failed"}

\* parseGPX was called by the hook and rejected
ParseRejected ==
    /\ call \in Hooks
    /\ IsNewFile(entryData)
    /\ promise.state = "rejected"

\* C24: when parseGPX rejects during addEntry or updateEntry,
\* processEntryImages still returns the rest of the entry, with no route data
\* of the failed file, and the hook goes on to write the entry and to load the
\* list: it never throws the error of the parse.
C24_ParseFailureTolerated ==
    /\ thrown \notin ParseReasons
    /\ (ParseRejected /\ pc # "reading") =>
          /\ promise.reason \in ParseReasons
          /\ pc # "settled" =>
                /\ processed.raceName = entryData.raceName
                /\ processed.routeData = entryData.routeData
                /\ thrown \in {"", StoreFailed}
          /\ pc = "settled" => ENABLED ProcessResume
          /\ pc = "processed" => ENABLED Persist
          /\ pc = "saved" => ENABLED Load
          /\ pc = "failed" => thrown = StoreFailed

\* the entry was written and the list loaded after a file of no track point
C24_Witness ==
    /\ ParseRejected
    /\ promise.reason = NoTrackPoints
    /\ pc = "done"
    /\ thrown = ""
    /\ \E row \in hookEntries : row.data.raceName = "Race" /\ row.data.gpxFile.kind = "File"

\* C27: with a new file that parseGPX resolves, routeData becomes the parsed
\* value and gpxFile the name of the file; with a new file that parseGPX
\* rejects, routeData and gpxFile are those of the entry given; with no new
\* file, the route data given is passed on.
C27_RouteDataFrame ==
    Processed =>
        /\ (IsNewFile(entryData) /\ promise.state = "fulfilled") =>
              /\ processed.routeData = routeData
              /\ routeData.coordinates = ExtractCoordinates(file.trkpts)
              /\ processed.gpxFile = GpxName(entryData.gpxFile.name)
        /\ (IsNewFile(entryData) /\ promise.state = "rejected") =>
              /\ processed.routeData = entryData.routeData
              /\ processed.gpxFile = entryData.gpxFile
        /\ ~IsNewFile(entryData) =>
              /\ processed.routeData = entryData.routeData
              /\ processed.gpxFile = entryData.gpxFile
        /\ processed.raceName = entryData.raceName

\* an update whose new file is rejected keeps the route the entry came with
C27_Witness ==
    /\ Processed
    /\ call = "updateEntry"
    /\ ParseRejected
    /\ entryData.routeData = OldRoute
    /\ processed.routeData = OldRoute
    /\ pc = "done"

(***************************************************************************)
(* RouteVisualization: the claim                                           *)
(***************************************************************************)
RenderDone == call = "RouteVisualization" /\ pc = "returned"

\* C26: RouteVisualization throws for no routeData: with routeData absent,
\* or its coordinates absent or empty, it renders the placeholder, with or
\* without stats; otherwise it renders the map.
C26_NeverThrows ==
    RenderDone =>
        IF ~prop.present \/ ~prop.hasCoordinates \/ prop.coordinates = <<>>
        THEN rendered = "No route data available"
        ELSE rendered = "map"

(***************************************************************************)
(* Several calls of parseGPX at once: the claims                           *)
(***************************************************************************)
\* what call i settles with when it runs alone: the state of its promise,
\* the reason of a rejection and the value of a resolution
AloneState(i) ==
    LET r == readers[i]
    IN  IF r.fired = "" THEN "pending"
        ELSE IF r.fired = "load" /\ r.file.wellFormed
                /\ ExtractCoordinates(r.file.trkpts) # <<>> /\ r.exception = ""
        THEN "fulfilled"
        ELSE "rejected"

AloneReason(i) ==
    LET r == readers[i]
    IN  IF AloneState(i) # "rejected" THEN ""
        ELSE IF r.fired = "error" THEN "Failed to read GPX file"
        ELSE IF ~r.file.wellFormed THEN "Invalid GPX file format"
        ELSE IF ExtractCoordinates(r.file.trkpts) = <<>>
        THEN "No track points found in GPX file"
        ELSE <<"Failed to parse GPX file: ", r.exception>>

AloneValue(i) ==
    LET coords == ExtractCoordinates(readers[i].file.trkpts)
    IN  IF AloneState(i) # "fulfilled" THEN NoRouteData
        ELSE [coordinates |-> coords,
              stats |-> calculateRouteStats(coords),
              bounds |-> calculateBounds(coords)]

\* every call has what it has alone
EachAlone ==
    \A i \in DOMAIN readers :
        /\ promises[i] = [state |-> AloneState(i), reason |-> AloneReason(i)]
        /\ results[i] = AloneValue(i)

\* a step leaves alone the calls whose reader does not fire in it, and a
\* return of calculateRouteStats leaves its argument alone
OthersUntouched ==
    /\ \A i \in DOMAIN readers :
          readers'[i].fired = readers[i].fired =>
              /\ readers'[i] = readers[i]
              /\ promises'[i] = promises[i]
              /\ results'[i] = results[i]
              /\ settles'[i] = settles[i]
    /\ call = "calculateRouteStats" => coordinates' = coordinates
    /\ (call = Concurrent /\ file' = file) => UNCHANGED <<promise, routeData, coordinates>>

\* C25: with several calls of parseGPX in flight and their callbacks in any
\* order, each call settles with what it gives alone, no call touches the
\* state of another, and calculateRouteStats leaves its argument as it was.
C25_Independent == [][OthersUntouched]_vars /\ []EachAlone

\* both callbacks ran, on different files, one resolving and one rejecting
C25_Witness ==
    /\ call = Concurrent
    /\ readers[1].fired = "load" /\ readers[2].fired = "load"
    /\ readers[1].file # readers[2].file
    /\ promises[1].state = "rejected" /\ promises[2].state = "fulfilled"
    /\ Len(results[2].coordinates) = 2

\* a settled promise stays as it is
StaysSettled ==
    /\ \A i \in DOMAIN readers :
          promises[i].state # "pending" =>
              promises'[i] = promises[i] /\ results'[i] = results[i]
    /\ promise.state # "pending" => promise' = promise /\ routeData' = routeData

\* once the reader has fired, the promise is settled by one call of resolve
\* or reject
SettledOnce ==
    /\ \A i \in DOMAIN readers :
          /\ settles[i] <= 1
          /\ (readers[i].fired # "") <=> (settles[i] = 1)
          /\ (readers[i].fired # "") <=> (promises[i].state \in {"fulfilled", "rejected"})
          /\ promises[i].state = "fulfilled" <=> results[i] # NoRouteData
          /\ promises[i].state = "rejected" <=> promises[i].reason # ""
          /\ (readers[i].fired = "load" /\ readers[i].exception # "") =>
                promises[i].state = "rejected"
    /\ call = "parseGPX" => ((pc = "reading") <=> (promise.state = "pending"))
    /\ call \in Parsing =>
          /\ pc = "reading" => promise.state = "pending"
          /\ pc = "settled" => promise.state # "pending"
          /\ promise.state = "fulfilled" <=> routeData # NoRouteData
          /\ promise.state = "rejected" <=> promise.reason # ""

\* C28: every call of parseGPX settles once: when its reader has fired load
\* or error, the promise is resolved with route data or rejected with an
\* error, never both and never twice, and an exception met while parsing or
\* computing becomes a rejection.
C28_SettlesOnce == [][StaysSettled]_vars /\ []SettledOnce

\* an exception met on the way to the statistics became a rejection
C28_Witness ==
    /\ call = Concurrent
    /\ \E i \in Ids :
          /\ readers[i].fired = "load"
          /\ readers[i].exception # ""
          /\ ExtractCoordinates(readers[i].file.trkpts) # <<>>
          /\ readers[i].file.wellFormed
          /\ promises[i] = Rejected(ParseFailed(readers[i].exception))
          /\ settles[i] = 1

(***************************************************************************)
(* useRaceEntries over Firestore: the claims                               *)
(***************************************************************************)
\* the call is over, and so is all it started
Quiet ==
    /\ call \in Firestore
    /\ pc \in {"returned", "threw"}
    /\ bg \in {"idle", "done", "failed"}
    /\ \A l \in 1..2 : loads[l].state \in {"idle", "done", "failed"}

\* C29: once addEntry or updateEntry with a new medal photo and all the work
\* it started are over, the state entries holds what the store holds: a load
\* that started earlier never overwrites one that started later.
\* (Stated for the runs in which no load fails.)
C29_ListMatchesStore ==
    (Quiet /\ call \in WithMedal /\ \A l \in 1..2 : loads[l].state # "failed") =>
        shown = docs

\* C30: deleteEntry takes the entry out of the state before the delete is
\* over; after the delete, failed or not, it loads the list, so that the
\* entry of a failed delete is shown again; the error is thrown only after
\* that load.
C30_DeleteReverts ==
    call = "deleteEntry" =>
        /\ pc = "deleting" => ~\E d \in shown : d.id = Mine
        /\ pc \in {"returned", "threw"} => loads[1].state \in {"done", "failed"}
        /\ pc = "threw" <=> (pending # "" /\ loads[1].state \in {"done", "failed"})
        /\ (Quiet /\ pending # "") => \E d \in shown : d.id = Mine

====
